---- MODULE Spec2Model ----
(***************************************************************************)
(* Token data provider, two-tier cache, retrying fetch client and trade    *)
(* performance tracker of plugin-solana                                    *)
(* (providers/token.ts, providers/trustScoreProvider.ts).                  *)
(*                                                                         *)
(* The module holds six specifications over one set of variables:          *)
(*   SpecFetch  one fetchWithRetry call at a time, attempt by attempt      *)
(*   SpecCache  getCachedData / setCachedData of several TokenProviders    *)
(*              sharing one durable store, with a clock                    *)
(*   SpecAgg    TokenProvider construction, the source adapters and        *)
(*              getProcessedTokenData                                      *)
(*   SpecTrade  createTradePerformance / updateSellDetails                 *)
(*   SpecMetrics  concurrent updateRecommenderMetrics calls, with a clock  *)
(*   SpecScore  suspiciousVolume, calculateRiskScore and calculateGemScore *)
(*              applied to bounded arguments                               *)
(***************************************************************************)
EXTENDS Integers, Sequences, FiniteSets, TLC

(***************************************************************************)
(* Retrying fetch client: TokenProvider.fetchWithRetry (token.ts:325-369), *)
(* and the identical loop of WalletProvider.fetchWithRetry                 *)
(* (token.ts:2532-2577).                                                   *)
(***************************************************************************)

\* PROVIDER_CONFIG.MAX_RETRIES
MAX_RETRIES == 3

\* PROVIDER_CONFIG.RETRY_DELAY, in milliseconds
RETRY_DELAY == 2000

\* number of fetchWithRetry calls followed in one behaviour
MaxCalls == 2

\* number of distinct response bodies a source may answer with
MaxBodies == 2

VARIABLES
    fpc,        \* position of the call: idle, inflight, backoff, returned, thrown
    i,          \* loop variable of fetchWithRetry
    attempts,   \* outcomes of the HTTP attempts issued by the current call, in order
    inflight,   \* number of HTTP requests of the current call not yet settled
    lastError,  \* local variable lastError
    delays,     \* the setTimeout delays the current call has waited, in order
    returned,   \* value the call returned (NoValue until it returns)
    thrown,     \* error the call threw (NoError until it throws)
    calls       \* number of calls started

fetchVars == <<fpc, i, attempts, inflight, lastError, delays, returned, thrown, calls>>

NoError == [attempt |-> -1, kind |-> "none"]
NoValue == [body |-> 0]

\* ways an attempt can end inside the try block without reaching `return data`:
\* fetch() rejects, response.ok is false, response.json() rejects
FailKinds == {"neterr", "non2xx", "badjson"}

Bodies == {[body |-> b] : b \in 1..MaxBodies}

Pow2(n) == IF n = 0 THEN 1 ELSE IF n = 1 THEN 2 ELSE IF n = 2 THEN 4 ELSE 8

\* loop condition  i < PROVIDER_CONFIG.MAX_RETRIES
LoopOverrun(k) == k <= MAX_RETRIES
LoopContinues(k) == k < MAX_RETRIES

\* condition of the backoff branch  i < PROVIDER_CONFIG.MAX_RETRIES - 1
ShouldWait(k) == k < MAX_RETRIES - 1

\* delay = PROVIDER_CONFIG.RETRY_DELAY * Math.pow(2, i)
RetryDelayFixed(k) == RETRY_DELAY
RetryDelay(k) == RETRY_DELAY * Pow2(k)

\* lastError = error as Error
KeepFirstError(prev, err) == IF prev = NoError THEN err ELSE prev
NextLastError(prev, err) == err

\* the error object raised by attempt k ending in the given way
ErrorOf(k, kind) == [attempt |-> k, kind |-> kind]

\* entering the loop body at index k issues fetch(); leaving the loop throws lastError
EnterLoop(k, err) ==
    IF LoopContinues(k)
    THEN /\ fpc' = "inflight"
         /\ inflight' = inflight + 1
         /\ thrown' = NoError
    ELSE /\ fpc' = "thrown"
         /\ inflight' = inflight
         /\ thrown' = err

\* fetchWithRetry(url, options) is called
FetchCall ==
    /\ fpc \in {"idle", "returned", "thrown"}
    /\ calls < MaxCalls
    /\ calls' = calls + 1
    /\ i' = 0
    /\ attempts' = <<>>
    /\ delays' = <<>>
    /\ lastError' = NoError
    /\ returned' = NoValue
    /\ EnterLoop(0, NoError)

\* the attempt in flight gets a 2xx response whose body parses: return data
AttemptSucceeds(b) ==
    /\ fpc = "inflight"
    /\ attempts' = Append(attempts, [kind |-> "ok", body |-> b.body])
    /\ inflight' = inflight - 1
    /\ returned' = b
    /\ fpc' = "returned"
    /\ UNCHANGED <<i, lastError, delays, thrown, calls>>

\* the attempt in flight ends in the catch block
AttemptFails(kind) ==
    /\ fpc = "inflight"
    /\ attempts' = Append(attempts, [kind |-> kind, body |-> 0])
    /\ lastError' = NextLastError(lastError, ErrorOf(i, kind))
    /\ IF ShouldWait(i)
       THEN /\ fpc' = "backoff"
            /\ inflight' = inflight - 1
            /\ UNCHANGED <<i, thrown>>
       ELSE /\ i' = i + 1
            /\ IF LoopContinues(i + 1)
               THEN /\ fpc' = "inflight"
                    /\ inflight' = inflight
                    /\ thrown' = NoError
               ELSE /\ fpc' = "thrown"
                    /\ inflight' = inflight - 1
                    /\ thrown' = lastError'
    /\ UNCHANGED <<delays, returned, calls>>

\* the setTimeout of the backoff branch fires: continue with the next iteration
BackoffElapsed ==
    /\ fpc = "backoff"
    /\ delays' = Append(delays, RetryDelay(i))
    /\ i' = i + 1
    /\ EnterLoop(i + 1, lastError)
    /\ UNCHANGED <<attempts, lastError, returned, calls>>

FetchInit ==
    /\ fpc = "idle"
    /\ i = 0
    /\ attempts = <<>>
    /\ inflight = 0
    /\ lastError = NoError
    /\ delays = <<>>
    /\ returned = NoValue
    /\ thrown = NoError
    /\ calls = 0

FetchNext ==
    \/ FetchCall
    \/ \E b \in Bodies : AttemptSucceeds(b)
    \/ \E kind \in FailKinds : AttemptFails(kind)
    \/ BackoffElapsed

\* number of HTTP attempts the current call has issued so far
Issued == Len(attempts) + inflight

\* C3 (as stated): a call issues at most 3 attempts, one at a time; attempt
\* k+1 is issued only after attempt k ended in a network error or a non-2xx
\* response; a call that returns returns the body of its first successful
\* attempt, which is its last attempt.
C3_RetryOnlyOnNetworkOrStatusError ==
    /\ Issued <= 3
    /\ inflight \in {0, 1}
    /\ \A k \in 1..(Issued - 1) :
          /\ k <= Len(attempts)
          /\ attempts[k].kind \in {"neterr", "non2xx"}
    /\ fpc = "returned" =>
          /\ inflight = 0
          /\ Len(attempts) >= 1
          /\ attempts[Len(attempts)].kind = "ok"
          /\ returned.body = attempts[Len(attempts)].body

\* C3 (amended): a call issues at most 3 attempts, one at a time; attempt
\* k+1 is issued only after attempt k has ended in a failure, which is a
\* network error, a non-2xx response or a 2xx response whose body does not
\* parse; a call that returns returns the body of its first successful
\* attempt and issues no attempt after it.
C3_AtMostThreeSequentialAttempts ==
    /\ Issued <= 3
    /\ inflight \in {0, 1}
    /\ \A k \in 1..(Issued - 1) :
          /\ k <= Len(attempts)
          /\ attempts[k].kind \in {"neterr", "non2xx", "badjson"}
    /\ fpc = "returned" =>
          /\ inflight = 0
          /\ Len(attempts) >= 1
          /\ attempts[Len(attempts)].kind = "ok"
          /\ returned.body = attempts[Len(attempts)].body

\* a call returns on its third attempt after an unparsable body and another failure
C3_Witness ==
    /\ fpc = "returned"
    /\ Len(attempts) = 3
    /\ attempts[1].kind = "badjson"
    /\ attempts[2].kind = "neterr"

\* C4: a call whose 3 attempts all failed has thrown and returned nothing,
\* and the error thrown is the error of the third attempt; a call throws in
\* no other case.
C4_ThrowsLastError ==
    LET allFailed == /\ Len(attempts) = 3
                     /\ \A k \in 1..3 : attempts[k].kind # "ok"
    IN  /\ allFailed => /\ fpc = "thrown"
                        /\ returned = NoValue
                        /\ thrown.attempt = 2
                        /\ thrown.kind = attempts[3].kind
        /\ fpc = "thrown" => allFailed
        /\ fpc # "thrown" => thrown = NoError

\* a call has thrown after three attempts that failed in three different ways
C4_Witness ==
    /\ fpc = "thrown"
    /\ attempts[1].kind = "neterr"
    /\ attempts[2].kind = "badjson"
    /\ attempts[3].kind = "non2xx"

\* C5: the call waits once between two consecutive attempts and nowhere
\* else: 2000 ms after the first failure, 4000 ms after the second, and
\* nothing after the third failure, on which it throws.
C5_BackoffDelays ==
    /\ Len(delays) <= 2
    /\ Len(delays) >= 1 => delays[1] = 2000
    /\ Len(delays) >= 2 => delays[2] = 4000
    /\ Issued >= 1 => Len(delays) = Issued - 1
    /\ fpc = "thrown" => Len(delays) = 2

\* a call has thrown having waited 2000 ms and then 4000 ms
C5_Witness ==
    /\ fpc = "thrown"
    /\ delays = <<2000, 4000>>

(***************************************************************************)
(* Two-tier cache of TokenProvider (token.ts:264-323): the in-process      *)
(* NodeCache of each provider and the durable store (ICacheManager) that   *)
(* all providers share.  Time is in milliseconds.                          *)
(***************************************************************************)

\* new NodeCache({ stdTTL: 600 }), in seconds
stdTTL == 600

\* expires: Date.now() + 10 * 60 * 1000
DurableTtlMs == 10 * 60 * 1000

\* the clock advances in steps of half a TTL
TickMs == DurableTtlMs \div 2

\* number of clock steps followed
MaxTicks == 3

\* number of setCachedData calls followed in one behaviour
MaxSets == 1

VARIABLES
    now,         \* Date.now()
    memory,      \* this.cache of each provider: key -> entry
    durable,     \* entries of the durable store
    pendingGet,  \* per provider: the getCachedData call awaiting readFromCache
    pendingSet,  \* per provider: the setCachedData call awaiting writeToCache
    lastRead,    \* outcome of the getCachedData call that completed in the latest step, if any
    lastWrite,   \* outcome of the setCachedData call that completed in the latest step, if any
    roundTrip,   \* per key: the setCachedData call that completed last, if no other call on the key overlapped it
    sets,        \* number of setCachedData calls started
    repopulated  \* per provider: the durable hit of its latest getCachedData, until its next getCachedData on the key

cacheVars == <<now, memory, durable, pendingGet, pendingSet,
               lastRead, lastWrite, roundTrip, sets, repopulated>>

\* the TokenProvider instances sharing the durable store
Providers == {1, 2}

\* private cacheKey: string = "solana/tokens"
cacheKey == "solana/tokens"

\* null / undefined, as a value that is not a record of the program
NULL == [null |-> TRUE]

\* the outcome of a call that threw instead of returning
THROWN == [thrown |-> TRUE]

\* JavaScript truthiness of a cached value: every object is truthy
Truthy(v) == v # NULL

\* keys the adapters cache under, for the one token address of the model
AllKeys == {"tokenSecurity", "token", "tokenTradeData", "dexScreenerData", "holderList",
            "prices"}

\* keys and records that the cache operations are exercised with
CacheKeys == {"tokenSecurity"}
CacheValues == {[price |-> 0, holder |-> 7], [price |-> 3, holder |-> 0]}

NoEntry == [v |-> NULL, t |-> 0, at |-> 0]
NoPending == [key |-> "", v |-> NULL, at |-> 0, alone |-> FALSE]
NoRoundTrip == [p |-> 0, v |-> NULL, at |-> 0, stored |-> FALSE]
NoRead == [hit |-> FALSE, v |-> NULL, at |-> 0, issued |-> 0,
           reached |-> FALSE, down |-> FALSE, threw |-> FALSE,
           follows |-> FALSE, expect |-> NULL]
NoWrite == [done |-> FALSE, down |-> FALSE, threw |-> FALSE]
NoDurableHit == [key |-> "", at |-> 0]

\* path.join(this.cacheKey, key)
CachePath(key) == <<cacheKey, key>>

\* the durable store keeps bytes: JSON text of the value.  The records cached
\* here come from response.json() and literals, which JSON text preserves.
Serialise(v) == <<"json", v>>
Deserialise(b) == b[2]

\* NodeCache.get: an entry whose expiry time t lies before now is gone
MemLive(p, key) == memory[p][key] # NoEntry /\ ~(memory[p][key].t < now)
MemGet(p, key) == IF MemLive(p, key) THEN memory[p][key].v ELSE NULL

\* NodeCache.set(key, data) with the default TTL; at is the time of the
\* setCachedData call the value comes from
MemSetDropped(mem, p, key, v, at) == mem
MemSet(mem, p, key, v, at) ==
    [mem EXCEPT ![p][key] = [v |-> v, t |-> now + stdTTL * 1000, at |-> at]]

\* NodeCache deletes an expired entry when it is looked up
MemExpire(mem, p, key) ==
    IF mem[p][key] # NoEntry /\ mem[p][key].t < now
    THEN [mem EXCEPT ![p][key] = NoEntry]
    ELSE mem

\* ICacheManager.get(path): the unexpired entry under path, if any
DurableLive(path) == {e \in durable : e.path = path /\ e.expires > now}
cacheManagerGet(path) ==
    IF DurableLive(path) = {} THEN NULL
    ELSE Deserialise((CHOOSE e \in DurableLive(path) : TRUE).bytes)
cacheManagerAt(path) ==
    IF DurableLive(path) = {} THEN 0
    ELSE (CHOOSE e \in DurableLive(path) : TRUE).at

\* ICacheManager.set(path, data, { expires })
cacheManagerSet(store, path, v, expires, at) ==
    {e \in store : e.path # path}
        \cup {[path |-> path, bytes |-> Serialise(v), expires |-> expires, at |-> at]}

\* ICacheManager.delete(path)
cacheManagerDelete(store, path) == {e \in store : e.path # path}

\* the store's get as readFromCache sees it: it throws while the store is
\* unavailable (up = FALSE)
cacheManagerGetOrThrow(path, up) == IF up THEN cacheManagerGet(path) ELSE THROWN

\* readFromCache: the catch block turns a throwing store into null
readFromCacheServeOnError(key, up) == cacheManagerGet(CachePath(key))
readFromCache(key, up) ==
    LET cached == cacheManagerGetOrThrow(CachePath(key), up)
    IN  IF cached = THROWN THEN NULL ELSE cached

\* the store's set as writeToCache sees it: it throws, having stored nothing,
\* while the store is unavailable (up = FALSE)
cacheManagerSetOrThrow(store, path, v, expires, at, up) ==
    IF up
    THEN [threw |-> FALSE, store |-> cacheManagerSet(store, path, v, expires, at)]
    ELSE [threw |-> TRUE, store |-> store]

\* writeToCache: the catch block swallows the error of a throwing store
writeToCacheSkipped(store, key, v, at, up) == [threw |-> FALSE, store |-> store]
writeToCache(store, key, v, at, up) ==
    LET w == cacheManagerSetOrThrow(store, CachePath(key), v, now + DurableTtlMs, at, up)
    IN  [w EXCEPT !.threw = FALSE]

\* the catch block around the body of setCachedData: log and return
setCachedDataCatch(w) == [w EXCEPT !.threw = FALSE]

\* the catch block around the body of getCachedData: return null
getCachedDataCatch(r) == IF r = THROWN THEN NULL ELSE r

\* getCachedData on a truthy durable value: return fileCachedData
ReturnCachedData(cachedData, fileCachedData) == cachedData
ReturnFileCachedData(cachedData, fileCachedData) == fileCachedData

\* no getCachedData or setCachedData call on key is suspended, except the
\* setCachedData call of provider p
NoOtherCallOn(key, p) ==
    /\ \A q \in Providers : pendingGet[q].key # key
    /\ \A q \in Providers \ {p} : pendingSet[q].key # key

\* the suspended setCachedData calls on key are no longer alone on it
Overlapped(pending, key) ==
    [q \in Providers |->
        IF pending[q].key = key THEN [pending[q] EXCEPT !.alone = FALSE] ELSE pending[q]]

\* the clock advances; a call to the durable store settles within a clock step
Tick ==
    /\ now < MaxTicks * TickMs
    /\ \A p \in Providers : pendingGet[p] = NoPending /\ pendingSet[p] = NoPending
    /\ now' = now + TickMs
    /\ lastRead' = NoRead
    /\ lastWrite' = NoWrite
    /\ UNCHANGED <<memory, durable, pendingGet, pendingSet,
                   roundTrip, sets, repopulated>>

\* setCachedData(key, v) up to its await: this.cache.set(cacheKey, data)
SetCachedDataStart(p, key, v) ==
    /\ pendingSet[p] = NoPending
    /\ sets < MaxSets
    /\ sets' = sets + 1
    /\ memory' = MemSet(memory, p, key, v, now)
    /\ pendingSet' = [Overlapped(pendingSet, key) EXCEPT
                        ![p] = [key |-> key, v |-> v, at |-> now,
                                alone |-> NoOtherCallOn(key, p)]]
    /\ roundTrip' = [roundTrip EXCEPT ![key] = NoRoundTrip]
    /\ lastRead' = NoRead
    /\ lastWrite' = NoWrite
    /\ UNCHANGED <<now, durable, pendingGet, repopulated>>

\* setCachedData after its await: writeToCache has settled; up tells whether
\* the durable store was available to it (its set did not throw)
SetCachedDataDone(p, up) ==
    /\ pendingSet[p] # NoPending
    /\ LET c == pendingSet[p] IN
         /\ durable' = setCachedDataCatch(writeToCache(durable, c.key, c.v, c.at, up)).store
         /\ lastWrite' = [done |-> TRUE, down |-> ~up,
                          threw |-> setCachedDataCatch(
                                       writeToCache(durable, c.key, c.v, c.at, up)).threw]
         /\ roundTrip' =
              [roundTrip EXCEPT ![c.key] =
                  IF c.alone /\ NoOtherCallOn(c.key, p)
                  THEN [p |-> p, v |-> c.v, at |-> c.at, stored |-> up]
                  ELSE NoRoundTrip]
    /\ pendingSet' = [pendingSet EXCEPT ![p] = NoPending]
    /\ lastRead' = NoRead
    /\ UNCHANGED <<now, memory, pendingGet, sets, repopulated>>

\* getCachedData(key) up to its await: a truthy in-process value is returned
\* at once, otherwise the call goes on to readFromCache
GetCachedDataStart(p, key) ==
    /\ pendingGet[p] = NoPending
    /\ IF Truthy(MemGet(p, key))
       THEN /\ lastRead' =
                 [hit |-> TRUE, v |-> MemGet(p, key),
                  at |-> memory[p][key].at, issued |-> now,
                  reached |-> FALSE, down |-> FALSE, threw |-> FALSE,
                  follows |-> /\ roundTrip[key] # NoRoundTrip
                              /\ roundTrip[key].p = p
                              /\ now < roundTrip[key].at + stdTTL * 1000,
                  expect |-> roundTrip[key].v]
            /\ UNCHANGED <<memory, pendingGet, pendingSet>>
       ELSE /\ pendingGet' = [pendingGet EXCEPT ![p] = [key |-> key, v |-> NULL, at |-> now,
                                                       alone |-> FALSE]]
            /\ pendingSet' = Overlapped(pendingSet, key)
            /\ memory' = MemExpire(memory, p, key)
            /\ lastRead' = NoRead
    /\ repopulated' = [repopulated EXCEPT ![p] = IF @.key = key THEN NoDurableHit ELSE @]
    /\ lastWrite' = NoWrite
    /\ UNCHANGED <<now, durable, roundTrip, sets>>

\* getCachedData after its await: a truthy durable value repopulates the
\* in-process tier and is returned, otherwise null is returned; up tells
\* whether the durable store was available to it (its get did not throw)
GetCachedDataDone(p, up) ==
    /\ pendingGet[p] # NoPending
    /\ LET c == pendingGet[p]
           fileCachedData == readFromCache(c.key, up)
           result == getCachedDataCatch(
                        IF fileCachedData = THROWN THEN THROWN
                        ELSE IF Truthy(fileCachedData)
                             THEN ReturnFileCachedData(MemGet(p, c.key), fileCachedData)
                             ELSE NULL)
           rt == roundTrip[c.key]
       IN  /\ memory' = IF fileCachedData # THROWN /\ Truthy(fileCachedData)
                        THEN MemSet(memory, p, c.key, fileCachedData,
                                    cacheManagerAt(CachePath(c.key)))
                        ELSE memory
           /\ lastRead' =
                 [hit |-> result # THROWN /\ Truthy(result),
                  v |-> result,
                  at |-> IF Truthy(fileCachedData)
                         THEN cacheManagerAt(CachePath(c.key)) ELSE 0,
                  issued |-> c.at,
                  reached |-> TRUE, down |-> ~up, threw |-> result = THROWN,
                  follows |-> /\ rt # NoRoundTrip
                              /\ rt.stored
                              /\ up
                              /\ now < rt.at + DurableTtlMs,
                  expect |-> rt.v]
           /\ repopulated' = IF fileCachedData # THROWN /\ Truthy(fileCachedData)
                             THEN [repopulated EXCEPT ![p] = [key |-> c.key, at |-> now]]
                             ELSE repopulated
    /\ pendingGet' = [pendingGet EXCEPT ![p] = NoPending]
    /\ lastWrite' = NoWrite
    /\ UNCHANGED <<now, durable, pendingSet, roundTrip, sets>>

CacheInit ==
    /\ now = 0
    /\ memory = [p \in Providers |-> [k \in AllKeys |-> NoEntry]]
    /\ durable = {}
    /\ pendingGet = [p \in Providers |-> NoPending]
    /\ pendingSet = [p \in Providers |-> NoPending]
    /\ lastRead = NoRead
    /\ lastWrite = NoWrite
    /\ roundTrip = [k \in AllKeys |-> NoRoundTrip]
    /\ sets = 0
    /\ repopulated = [p \in Providers |-> NoDurableHit]

CacheNext ==
    \/ Tick
    \/ \E p \in Providers, key \in CacheKeys, v \in CacheValues : SetCachedDataStart(p, key, v)
    \/ \E p \in Providers, up \in BOOLEAN : SetCachedDataDone(p, up)
    \/ \E p \in Providers, key \in CacheKeys : GetCachedDataStart(p, key)
    \/ \E p \in Providers, up \in BOOLEAN : GetCachedDataDone(p, up)

\* C6 (as stated): a getCachedData issued more than the TTL of 10 minutes
\* after the setCachedData call that stored a value never returns that
\* value: every value returned is at most 600000 ms old when the read is
\* issued.
C6_NoReadAfterTtl ==
    lastRead.hit => lastRead.issued <= lastRead.at + 600000

\* C7: a getCachedData that reaches the durable tier while the store is
\* unavailable returns null, and no getCachedData or setCachedData throws.
C7_UnavailableStoreIsMiss ==
    /\ (lastRead.reached /\ lastRead.down) =>
          /\ ~lastRead.hit
          /\ lastRead.v = NULL
    /\ ~lastRead.threw
    /\ ~lastWrite.threw

\* a read reached the unavailable durable store while the store held a live
\* entry for the key
C7_Witness ==
    /\ lastRead.reached
    /\ lastRead.down
    /\ \E e \in durable : e.expires > now

MaxAggCalls == 1

\* number of stand-alone adapter calls followed in one behaviour
MaxAdapterCalls == 1

VARIABLES
    built,         \* "none" before new TokenProvider(...), then "ok" or "threw"
    rawAddress,    \* the address the constructor received
    tokenAddress,  \* this.tokenAddress
    hasApiKey,     \* runtime.getSetting("BIRDEYE_API_KEY") is set
    aggPc,         \* position of getProcessedTokenData
    security,      \* locals of getProcessedTokenData
    tokenCodex,
    tradeData,
    dexData,
    highValueHolders,
    processed,     \* the ProcessedTokenData returned
    requests,      \* per source: requests issued during the getProcessedTokenData call
    adapterCall,   \* the stand-alone adapter call made in the latest step, if any
    aggCalls,      \* number of getProcessedTokenData calls started
    adapterCalls   \* number of stand-alone adapter calls made

aggVars == <<built, rawAddress, tokenAddress, hasApiKey, aggPc, security,
             tokenCodex, tradeData, dexData, highValueHolders, processed,
             requests, adapterCall, aggCalls, adapterCalls>>

\* the provider whose adapters are followed
Self == 1

\* addresses handed to the constructor: an empty one, one that normalizes and
\* one that does not
\* a string value, kept apart from null
Str(s) == [str |-> s]
GoodAddress == Str("So11111111111111111111111111111111111111112")
BadAddress == Str("0xnot-a-solana-address")
RawAddresses == {Str(""), GoodAddress, BadAddress}

\* normalizeAddress of ../keypairUtils: the canonical form of an address, or
\* a throw for a string that is not an address
normalizeAddress(a) == IF a = GoodAddress THEN GoodAddress ELSE THROWN

\* JavaScript truthiness of string | null
TruthyAddress(a) == a # NULL /\ a # Str("")

\* the catch block of the constructor: "Set to null and continue rather than
\* throwing"
ConstructorCatch(r) == IF r = THROWN THEN NULL ELSE r

\* this.tokenAddress after the constructor
ConstructedAddress(raw) ==
    IF TruthyAddress(raw) THEN ConstructorCatch(normalizeAddress(raw)) ELSE raw

\* what a source does with one adapter call: a usable payload, a payload the
\* adapter cannot use, or a failure of every request
Outcomes == {"ok", "unusable", "fail"}

Sources == {"security", "codex", "trade", "dex", "holders"}

\* prices a usable token overview carries (overview.price || 0)
Prices == {0, 5}

\* records built from a usable payload; decimal strings are written as the
\* numbers they denote
SourceSecurity == [ownerBalance |-> 5, creatorBalance |-> 1,
                   top10HolderPercent |-> 40, totalSupply |-> 100]
SourceCodex == [id |-> "codex:1", address |-> GoodAddress, decimals |-> 6,
                name |-> "Token", isScam |-> FALSE]
SourceTradeData(price) == [address |-> GoodAddress, price |-> price,
                           holder |-> 7, volume_24h_usd |-> 50]
SourceDexData == [schemaVersion |-> "1.0.0", pairs |-> <<[chainId |-> "solana", liquidity |-> 9]>>]
\* a HolderData[] value
List(q) == [list |-> q]
\* the largest accounts of the token: at a price of 5 the second is worth
\* exactly 5 USD, and the third holds exactly 2% of a supply of 100
SourceHolders == List(<<[address |-> "holder1", balance |-> 10],
                        [address |-> "holder2", balance |-> 1],
                        [address |-> "holder3", balance |-> 2],
                        [address |-> "holder4", balance |-> 3]>>)

\* the zeroed records the code falls back to
DefaultSecurity == [ownerBalance |-> 0, creatorBalance |-> 0,
                    top10HolderPercent |-> 0, totalSupply |-> 0]
DefaultCodex(addr) == [id |-> "", address |-> addr, decimals |-> 9,
                       name |-> "", isScam |-> FALSE]
getDefaultTradeData(addr) == [address |-> addr, price |-> 0,
                              holder |-> 0, volume_24h_usd |-> 0]
DefaultDexData == [schemaVersion |-> "1.0.0", pairs |-> <<>>]
DefaultHolders == List(<<>>)

NoAdapterCall == [adapter |-> "", outcome |-> "", asked |-> FALSE, ret |-> NULL, at |-> 0]

\* getCachedData(key) as one step of provider p: the value returned and the
\* in-process tier it leaves behind
getCachedData(p, key, up) ==
    LET cachedData == MemGet(p, key)
        fileCachedData == readFromCache(key, up)
    IN  IF Truthy(cachedData)
        THEN [v |-> cachedData, mem |-> memory]
        ELSE IF Truthy(fileCachedData)
             THEN [v |-> ReturnFileCachedData(cachedData, fileCachedData),
                   mem |-> MemSet(MemExpire(memory, p, key), p, key, fileCachedData,
                                  cacheManagerAt(CachePath(key)))]
             ELSE [v |-> NULL, mem |-> MemExpire(memory, p, key)]

\* setCachedData(key, v) as one step of provider p: both tiers afterwards
setCachedData(mem, store, p, key, v, up) ==
    [mem |-> MemSet(mem, p, key, v, now),
     store |-> setCachedDataCatch(writeToCache(store, key, v, now, up)).store]

\* what an adapter call leaves behind: the value returned (or THROWN), both
\* cache tiers, the number of requests sent to the source and whether the
\* source was asked at all
Ret(ret, mem, store, reqs) ==
    [ret |-> ret, mem |-> mem, store |-> store, reqs |-> reqs, asked |-> reqs > 0]

\* requests one fetchWithRetry call sends for a source outcome
RetriedRequests(o) == IF o = "fail" THEN MAX_RETRIES ELSE 1

\* fetchTokenSecurity: the cache key is built from this.tokenAddress
\* .toLowerCase() outside the try block; a failed or unusable fetch returns the
\* zeroed record
fetchTokenSecurity(p, addr, o, up) ==
    IF addr = NULL THEN Ret(THROWN, memory, durable, 0)
    ELSE LET c == getCachedData(p, "tokenSecurity", up) IN
         IF Truthy(c.v) THEN Ret(c.v, c.mem, durable, 0)
         ELSE IF o = "ok"
              THEN LET w == setCachedData(c.mem, durable, p, "tokenSecurity",
                                          SourceSecurity, up)
                   IN  Ret(SourceSecurity, w.mem, w.store, RetriedRequests(o))
              ELSE Ret(DefaultSecurity, c.mem, durable, RetriedRequests(o))

\* fetchTokenCodex: one request; every failure is logged and thrown again
fetchTokenCodex(p, addr, o, up) ==
    IF ~TruthyAddress(addr) THEN Ret(THROWN, memory, durable, 0)
    ELSE LET c == getCachedData(p, "token", up) IN
         IF Truthy(c.v) THEN Ret(c.v, c.mem, durable, 0)
         ELSE IF o = "ok"
              THEN LET w == setCachedData(c.mem, durable, p, "token", SourceCodex, up)
                   IN  Ret(SourceCodex, w.mem, w.store, 1)
              ELSE Ret(THROWN, c.mem, durable, 1)

\* fetchTokenTradeData: a cached record is used only if its price is truthy;
\* without an API key the adapter returns null; every failure is thrown as
\* "Failed to fetch token trade data"
fetchTokenTradeData(p, addr, apiKey, o, price, up) ==
    LET c == getCachedData(p, "tokenTradeData", up) IN
    IF Truthy(c.v) /\ c.v.price # 0 THEN Ret(c.v, c.mem, durable, 0)
    ELSE IF ~apiKey THEN Ret(NULL, c.mem, durable, 0)
    ELSE IF o = "ok"
         THEN LET t == [SourceTradeData(price) EXCEPT !.address = addr]
                  w == setCachedData(c.mem, durable, p, "tokenTradeData", t, up)
              IN  Ret(t, w.mem, w.store, RetriedRequests(o))
         ELSE Ret(THROWN, c.mem, durable, RetriedRequests(o))

\* the tokens fetchPrices asks Birdeye for, by their field of Prices, and the
\* price a usable response carries for each
PricedTokens == {"solana", "bitcoin", "ethereum"}
SourcePrice == [solana |-> 150, bitcoin |-> 60000, ethereum |-> 3000]

\* fetchPrices: one fetchWithRetry per token, a token whose fetch fails keeps
\* the usd "0" it starts with; the record is cached if at least one usd is
\* not "0".  failed is the set of tokens whose fetch fails.
fetchPrices(p, failed, up) ==
    LET c == getCachedData(p, "prices", up)
        prices == [t \in PricedTokens |->
                      [usd |-> IF t \in failed THEN 0 ELSE SourcePrice[t]]]
        reqs == Cardinality(failed) * MAX_RETRIES + Cardinality(PricedTokens \ failed)
    IN  IF Truthy(c.v) THEN Ret(c.v, c.mem, durable, 0)
        ELSE IF \E t \in PricedTokens : prices[t].usd # 0
             THEN LET w == setCachedData(c.mem, durable, p, "prices", prices, up)
                  IN  Ret(prices, w.mem, w.store, reqs)
             ELSE Ret(prices, c.mem, durable, reqs)

\* fetchDexScreenerData: one request; a cached record is used only if it has
\* pairs; a failed or pairless fetch returns the empty record
fetchDexScreenerData(p, addr, o, up) ==
    LET c == getCachedData(p, "dexScreenerData", up) IN
    IF Truthy(c.v) /\ Len(c.v.pairs) > 0 THEN Ret(c.v, c.mem, durable, 0)
    ELSE IF o = "ok"
         THEN LET w == setCachedData(c.mem, durable, p, "dexScreenerData",
                                     SourceDexData, up)
              IN  Ret(SourceDexData, w.mem, w.store, 1)
         ELSE Ret(DefaultDexData, c.mem, durable, 1)

\* fetchHolderList: one request; a cached list is used only if it is not
\* empty; a failed or unusable fetch returns the empty list, and a list is
\* cached only if it is not empty
fetchHolderList(p, addr, o, up) ==
    LET c == getCachedData(p, "holderList", up) IN
    IF Truthy(c.v) /\ Len(c.v.list) > 0 THEN Ret(c.v, c.mem, durable, 0)
    ELSE IF o = "ok"
         THEN LET w == setCachedData(c.mem, durable, p, "holderList",
                                     SourceHolders, up)
              IN  Ret(SourceHolders, w.mem, w.store, 1)
         ELSE IF o = "empty" THEN Ret(List(<<>>), c.mem, durable, 1)
         ELSE Ret(DefaultHolders, c.mem, durable, 1)

\* filterHighValueHolders: without a priced trade record the holder list is
\* not fetched; holders worth more than 5 USD are kept
filterHighValueHoldersAtLeast(p, addr, trade, o, up) ==
    IF trade = NULL \/ trade.price = 0
    THEN [val |-> <<>>, call |-> Ret(NULL, memory, durable, 0)]
    ELSE LET h == fetchHolderList(p, addr, o, up)
             kept == SelectSeq(h.ret.list, LAMBDA x : x.balance * trade.price >= 5)
         IN  [val |-> [k \in 1..Len(kept) |->
                          [holderAddress |-> kept[k].address,
                           balanceUsd |-> kept[k].balance * trade.price]],
              call |-> h]
filterHighValueHolders(p, addr, trade, o, up) ==
    IF trade = NULL \/ trade.price = 0
    THEN [val |-> <<>>, call |-> Ret(NULL, memory, durable, 0)]
    ELSE LET h == fetchHolderList(p, addr, o, up)
             kept == SelectSeq(h.ret.list, LAMBDA x : x.balance * trade.price > 5)
         IN  [val |-> [k \in 1..Len(kept) |->
                          [holderAddress |-> kept[k].address,
                           balanceUsd |-> kept[k].balance * trade.price]],
              call |-> h]

\* countHighSupplyHolders: with a total supply of zero the holder list is not
\* fetched; holders of more than 2% of the supply are counted.  The owner
\* balance of a record built by fetchTokenSecurity is a non-empty string, "0"
\* at least, so the check for a missing balance never returns early.
countHighSupplyHoldersAtLeast(p, addr, sec, o, up) ==
    IF sec = NULL \/ sec.totalSupply = 0
    THEN [val |-> 0, call |-> Ret(NULL, memory, durable, 0)]
    ELSE LET h == fetchHolderList(p, addr, o, up)
         IN  [val |-> Len(SelectSeq(h.ret.list,
                                    LAMBDA x : x.balance * 100 >= 2 * sec.totalSupply)),
              call |-> h]
countHighSupplyHolders(p, addr, sec, o, up) ==
    IF sec = NULL \/ sec.totalSupply = 0
    THEN [val |-> 0, call |-> Ret(NULL, memory, durable, 0)]
    ELSE LET h == fetchHolderList(p, addr, o, up)
         IN  [val |-> Len(SelectSeq(h.ret.list,
                                    LAMBDA x : x.balance * 100 > 2 * sec.totalSupply)),
              call |-> h]

\* new TokenProvider(raw, walletProvider, cacheManager) in a runtime that has
\* or lacks the BIRDEYE_API_KEY setting
Construct(raw, apiKey) ==
    /\ built = "none"
    /\ built' = "ok"
    /\ rawAddress' = raw
    /\ tokenAddress' = ConstructedAddress(raw)
    /\ hasApiKey' = apiKey
    /\ UNCHANGED <<aggPc, security, tokenCodex, tradeData, dexData,
                   highValueHolders, processed, requests, adapterCall,
                   aggCalls, adapterCalls>>
    /\ UNCHANGED <<memory, durable>>

\* the catch blocks of getProcessedTokenData around fetchTokenCodex and
\* fetchTokenTradeData: a thrown error is replaced by the default record.  An
\* error that is not caught there reaches the outer catch block, which throws
\* it again.
CodexRethrown(r, addr) == r
CodexOrDefault(r, addr) == IF r = THROWN THEN DefaultCodex(addr) ELSE r
TradeOrDefault(r, addr) == IF r = THROWN THEN getDefaultTradeData(addr) ELSE r

\* bookkeeping shared by the steps of getProcessedTokenData
AggCounts(before, src, call) ==
    /\ requests' = [before EXCEPT ![src] = @ + call.reqs]
    /\ memory' = call.mem
    /\ durable' = call.store
    /\ adapterCall' = NoAdapterCall
    /\ UNCHANGED <<built, rawAddress, tokenAddress, hasApiKey, adapterCalls>>

NoRequests == [src \in Sources |-> 0]

\* getProcessedTokenData, first await: fetchTokenSecurity is not guarded, so
\* an error it throws reaches the outer catch block, which throws it again
AggSecurity(o, up) ==
    /\ built = "ok"
    /\ aggPc = "idle"
    /\ aggCalls < MaxAggCalls
    /\ LET call == fetchTokenSecurity(Self, tokenAddress, o, up) IN
         /\ AggCounts(NoRequests, "security", call)
         /\ aggCalls' = aggCalls + 1
         /\ IF call.ret = THROWN
            THEN /\ aggPc' = "thrown"
                 /\ security' = NULL
            ELSE /\ aggPc' = "codex"
                 /\ security' = IF call.ret = NULL THEN DefaultSecurity ELSE call.ret
    /\ UNCHANGED <<tokenCodex, tradeData, dexData, highValueHolders, processed>>

\* second await: fetchTokenCodex inside try/catch
AggCodex(o, up) ==
    /\ aggPc = "codex"
    /\ LET call == fetchTokenCodex(Self, tokenAddress, o, up) IN
         /\ AggCounts(requests, "codex", call)
         /\ tokenCodex' = CodexOrDefault(call.ret, tokenAddress)
         /\ aggPc' = IF CodexOrDefault(call.ret, tokenAddress) = THROWN
                     THEN "thrown" ELSE "trade"
    /\ UNCHANGED <<security, tradeData, dexData, highValueHolders, processed, aggCalls>>

\* third await: fetchTokenTradeData inside try/catch; a null record or a
\* falsy price sends the call on to a second fetch
AggTrade(o, price, up) ==
    /\ aggPc = "trade"
    /\ LET call == fetchTokenTradeData(Self, tokenAddress, hasApiKey, o, price, up)
           t == TradeOrDefault(call.ret, tokenAddress)
       IN  /\ AggCounts(requests, "trade", call)
           /\ tradeData' = t
           /\ aggPc' = IF t = THROWN THEN "thrown"
                       ELSE IF call.ret # THROWN /\ (t = NULL \/ t.price = 0)
                            THEN "tradeAgain" ELSE "dex"
    /\ UNCHANGED <<security, tokenCodex, dexData, highValueHolders, processed, aggCalls>>

\* "Clear cache and try again": this.cacheManager.delete is given the key
\* without the path prefix, so it removes no entry that writeToCache stored,
\* then fetchTokenTradeData is called once more; an error of either is caught
\* and replaced by the default record
AggTradeAgain(o, price, up) ==
    /\ aggPc = "tradeAgain"
    /\ IF up
       THEN LET call == fetchTokenTradeData(Self, tokenAddress, hasApiKey, o, price, up)
            IN  /\ AggCounts(requests, "trade",
                             [call EXCEPT !.store = cacheManagerDelete(call.store,
                                                        <<"tokenTradeData">>)])
                /\ tradeData' = TradeOrDefault(call.ret, tokenAddress)
                /\ aggPc' = IF TradeOrDefault(call.ret, tokenAddress) = THROWN
                            THEN "thrown" ELSE "dex"
       ELSE /\ AggCounts(requests, "trade", Ret(THROWN, memory, durable, 0))
            /\ tradeData' = TradeOrDefault(THROWN, tokenAddress)
            /\ aggPc' = IF TradeOrDefault(THROWN, tokenAddress) = THROWN
                        THEN "thrown" ELSE "dex"
    /\ UNCHANGED <<security, tokenCodex, dexData, highValueHolders, processed, aggCalls>>

\* fourth await: fetchDexScreenerData inside try/catch
AggDex(o, up) ==
    /\ aggPc = "dex"
    /\ LET call == fetchDexScreenerData(Self, tokenAddress, o, up) IN
         /\ AggCounts(requests, "dex", call)
         /\ dexData' = IF call.ret = THROWN \/ Len(call.ret.pairs) = 0
                       THEN DefaultDexData ELSE call.ret
    /\ aggPc' = "holders"
    /\ UNCHANGED <<security, tokenCodex, tradeData, highValueHolders, processed, aggCalls>>

\* filterHighValueHolders(tradeData)
AggHighValueHolders(o, up) ==
    /\ aggPc = "holders"
    /\ LET f == filterHighValueHolders(Self, tokenAddress, tradeData, o, up) IN
         /\ AggCounts(requests, "holders", f.call)
         /\ highValueHolders' = f.val
    /\ aggPc' = "supply"
    /\ UNCHANGED <<security, tokenCodex, tradeData, dexData, processed, aggCalls>>

\* isDexScreenerListed: dexData?.pairs?.length > 0 || false
isDexScreenerListed(dex) == dex # NULL /\ Len(dex.pairs) > 0

\* isDexScreenerPaid: dexData?.pairs?.some((pair) => pair.boosts &&
\* pair.boosts.active > 0) || false
isDexScreenerPaidAnyBoost(dex) ==
    /\ dex # NULL
    /\ \E k \in 1..Len(dex.pairs) :
          "boosts" \in DOMAIN dex.pairs[k] /\ dex.pairs[k].boosts # NULL
isDexScreenerPaid(dex) ==
    /\ dex # NULL
    /\ \E k \in 1..Len(dex.pairs) :
          /\ "boosts" \in DOMAIN dex.pairs[k]
          /\ dex.pairs[k].boosts # NULL
          /\ dex.pairs[k].boosts.active > 0

\* countHighSupplyHolders(security), then the ProcessedTokenData is put
\* together and returned
AggReturn(o, up) ==
    /\ aggPc = "supply"
    /\ LET n == countHighSupplyHolders(Self, tokenAddress, security, o, up) IN
         /\ AggCounts(requests, "holders", n.call)
         /\ processed' =
              [security |-> security,
               tradeData |-> tradeData,
               highValueHolders |-> highValueHolders,
               recentTrades |-> tradeData # NULL /\ tradeData.volume_24h_usd > 0,
               highSupplyHoldersCount |-> n.val,
               dexScreenerData |-> dexData,
               isDexScreenerListed |-> isDexScreenerListed(dexData),
               isDexScreenerPaid |-> isDexScreenerPaid(dexData),
               tokenCodex |-> tokenCodex]
    /\ aggPc' = "returned"
    /\ UNCHANGED <<security, tokenCodex, tradeData, dexData, highValueHolders, aggCalls>>

\* the caller has the result or the error of the call
AggDone ==
    /\ aggPc \in {"returned", "thrown"}
    /\ aggPc' = "idle"
    /\ security' = NULL
    /\ tokenCodex' = NULL
    /\ tradeData' = NULL
    /\ dexData' = NULL
    /\ highValueHolders' = <<>>
    /\ processed' = NULL
    /\ requests' = NoRequests
    /\ adapterCall' = NoAdapterCall
    /\ UNCHANGED <<built, rawAddress, tokenAddress, hasApiKey, aggCalls, adapterCalls>>
    /\ UNCHANGED <<memory, durable>>

Adapters == {"fetchTokenSecurity", "fetchTokenCodex", "fetchTokenTradeData",
             "fetchDexScreenerData", "fetchHolderList"}

\* the adapter a, called with the outcome o of its source
CallOf(a, o, price, up) ==
    CASE a = "fetchTokenSecurity" -> fetchTokenSecurity(Self, tokenAddress, o, up)
      [] a = "fetchTokenCodex" -> fetchTokenCodex(Self, tokenAddress, o, up)
      [] a = "fetchTokenTradeData" ->
            fetchTokenTradeData(Self, tokenAddress, hasApiKey, o, price, up)
      [] a = "fetchDexScreenerData" -> fetchDexScreenerData(Self, tokenAddress, o, up)
      [] a = "fetchHolderList" -> fetchHolderList(Self, tokenAddress, o, up)

\* a caller other than getProcessedTokenData calls one adapter on its own
AdapterCall(a, o, price, up) ==
    /\ built = "ok"
    /\ aggPc = "idle"
    /\ adapterCalls < MaxAdapterCalls
    /\ adapterCalls' = adapterCalls + 1
    /\ LET call == CallOf(a, o, price, up) IN
         /\ adapterCall' = [adapter |-> a, outcome |-> o, asked |-> call.asked,
                            ret |-> call.ret, at |-> now]
         /\ memory' = call.mem
         /\ durable' = call.store
    /\ UNCHANGED <<built, rawAddress, tokenAddress, hasApiKey, aggPc, security,
                   tokenCodex, tradeData, dexData, highValueHolders, processed,
                   requests, aggCalls>>

\* number of repeated stand-alone adapter calls followed in one behaviour
MaxRepeatCalls == 2

\* a caller calls fetchPrices
FetchPricesCall(failed, up) ==
    /\ built = "ok"
    /\ aggPc = "idle"
    /\ adapterCalls < MaxRepeatCalls
    /\ adapterCalls' = adapterCalls + 1
    /\ LET call == fetchPrices(Self, failed, up) IN
         /\ adapterCall' = [adapter |-> "fetchPrices",
                            outcome |-> IF failed = {} THEN "ok" ELSE "fail",
                            asked |-> call.asked, ret |-> call.ret, at |-> now]
         /\ memory' = call.mem
         /\ durable' = call.store
    /\ UNCHANGED <<built, rawAddress, tokenAddress, hasApiKey, aggPc, security,
                   tokenCodex, tradeData, dexData, highValueHolders, processed,
                   requests, aggCalls>>

\* a caller calls fetchHolderList; the outcome "empty" is a well-formed
\* response whose result.value holds no account
FetchHolderListCall(o, up) ==
    /\ built = "ok"
    /\ aggPc = "idle"
    /\ adapterCalls < MaxRepeatCalls
    /\ adapterCalls' = adapterCalls + 1
    /\ LET call == fetchHolderList(Self, tokenAddress, o, up) IN
         /\ adapterCall' = [adapter |-> "fetchHolderList", outcome |-> o,
                            asked |-> call.asked, ret |-> call.ret, at |-> now]
         /\ memory' = call.mem
         /\ durable' = call.store
    /\ UNCHANGED <<built, rawAddress, tokenAddress, hasApiKey, aggPc, security,
                   tokenCodex, tradeData, dexData, highValueHolders, processed,
                   requests, aggCalls>>

AggInit ==
    /\ built = "none"
    /\ rawAddress = NULL
    /\ tokenAddress = NULL
    /\ hasApiKey = FALSE
    /\ aggPc = "idle"
    /\ security = NULL
    /\ tokenCodex = NULL
    /\ tradeData = NULL
    /\ dexData = NULL
    /\ highValueHolders = <<>>
    /\ processed = NULL
    /\ requests = NoRequests
    /\ adapterCall = NoAdapterCall
    /\ aggCalls = 0
    /\ adapterCalls = 0

AggNext ==
    \/ \E raw \in RawAddresses, apiKey \in BOOLEAN : Construct(raw, apiKey)
    \/ \E o \in Outcomes, up \in BOOLEAN : AggSecurity(o, up)
    \/ \E o \in Outcomes, up \in BOOLEAN : AggCodex(o, up)
    \/ \E o \in Outcomes, price \in Prices, up \in BOOLEAN : AggTrade(o, price, up)
    \/ \E o \in Outcomes, price \in Prices, up \in BOOLEAN : AggTradeAgain(o, price, up)
    \/ \E o \in Outcomes, up \in BOOLEAN : AggDex(o, up)
    \/ \E o \in Outcomes, up \in BOOLEAN : AggHighValueHolders(o, up)
    \/ \E o \in Outcomes, up \in BOOLEAN : AggReturn(o, up)
    \/ AggDone
    \/ \E a \in Adapters, o \in Outcomes, price \in Prices, up \in BOOLEAN :
          AdapterCall(a, o, price, up)

\* the cache variables that no step of the provider touches
cacheRest == <<now, pendingGet, pendingSet, lastRead, lastWrite, roundTrip, sets,
               repopulated>>

\* C1: for a provider constructed with a valid token address,
\* getProcessedTokenData never throws, whatever each source does, and the
\* record it returns carries a security record, a metadata record, a DEX
\* record, a holder list and, when the API key of the trade source is
\* configured, a trade record.
C1_AggregatorNeverThrows ==
    (built = "ok" /\ tokenAddress = GoodAddress) =>
        /\ aggPc # "thrown"
        /\ aggPc = "returned" =>
              /\ processed # NULL
              /\ processed.security \in {SourceSecurity, DefaultSecurity}
              /\ processed.tokenCodex \in {SourceCodex, DefaultCodex(GoodAddress)}
              /\ processed.dexScreenerData \in {SourceDexData, DefaultDexData}
              /\ hasApiKey => /\ processed.tradeData # NULL
                              /\ processed.tradeData # THROWN
                              /\ processed.tradeData.address = GoodAddress

\* a call has returned although the security, metadata, trade and DEX sources
\* all failed on every request
C1_Witness ==
    /\ tokenAddress = GoodAddress
    /\ hasApiKey
    /\ aggPc = "returned"
    /\ requests = [NoRequests EXCEPT !["security"] = MAX_RETRIES, !["codex"] = 1,
                                     !["trade"] = MAX_RETRIES, !["dex"] = 1]
    /\ processed.security = DefaultSecurity
    /\ processed.tokenCodex = DefaultCodex(GoodAddress)
    /\ processed.tradeData = getDefaultTradeData(GoodAddress)
    /\ processed.dexScreenerData = DefaultDexData

\* C2 (as stated): an adapter called on its own whose source fails on every
\* attempt returns its zeroed or empty default record and does not throw.
C2_AdaptersReturnDefaults ==
    (tokenAddress = GoodAddress /\ adapterCall.asked /\ adapterCall.outcome = "fail") =>
        adapterCall.ret =
            CASE adapterCall.adapter = "fetchTokenSecurity" -> DefaultSecurity
              [] adapterCall.adapter = "fetchTokenCodex" -> DefaultCodex(GoodAddress)
              [] adapterCall.adapter = "fetchTokenTradeData" -> getDefaultTradeData(GoodAddress)
              [] adapterCall.adapter = "fetchDexScreenerData" -> DefaultDexData
              [] adapterCall.adapter = "fetchHolderList" -> DefaultHolders

\* C9 (as stated): constructing a provider with a non-empty address that fails
\* normalization ends in an error thrown to the caller, and no adapter or
\* getProcessedTokenData call runs on a provider whose token address is null.
C9_MalformedAddressRejected ==
    /\ (built # "none" /\ TruthyAddress(rawAddress)
                       /\ normalizeAddress(rawAddress) = THROWN) => built = "threw"
    /\ (aggPc # "idle" \/ adapterCall # NoAdapterCall) => tokenAddress # NULL

\* C26: highValueHolders holds exactly the holders of the fetched holder list
\* whose balance * trade price is strictly greater than 5 USD, each with that
\* value, in the order of the list; it is empty when the list could not be
\* fetched, when it is empty and when no trade price is known, and the call
\* goes on to return its record.  The list fetchHolderList returned is the
\* one the in-process tier holds afterwards; a failed fetch leaves none.
C26_HighValueHoldersAboveFiveUsd ==
    LET c == MemGet(Self, "holderList")
        fetched == IF c = NULL THEN <<>> ELSE c.list
        priced == tradeData # NULL /\ tradeData.price # 0
        above == SelectSeq(fetched, LAMBDA h : h.balance * tradeData.price > 5)
    IN  /\ aggPc = "supply" =>
              /\ priced =>
                    /\ Len(highValueHolders) = Len(above)
                    /\ \A k \in 1..Len(above) :
                          /\ highValueHolders[k].holderAddress = above[k].address
                          /\ highValueHolders[k].balanceUsd =
                                 above[k].balance * tradeData.price
              /\ (~priced \/ fetched = <<>>) => highValueHolders = <<>>
        /\ aggPc = "returned" => processed.highValueHolders = highValueHolders

\* at a price of 5 the holders worth 50, 10 and 15 USD were kept and the
\* holder worth exactly 5 USD was not
C26_Witness ==
    /\ aggPc = "supply"
    /\ tradeData # NULL
    /\ tradeData.price = 5
    /\ highValueHolders = <<[holderAddress |-> "holder1", balanceUsd |-> 50],
                            [holderAddress |-> "holder3", balanceUsd |-> 10],
                            [holderAddress |-> "holder4", balanceUsd |-> 15]>>

\* C27: highSupplyHoldersCount is the number of holders of the fetched holder
\* list whose balance is strictly greater than 2% of the total supply of the
\* security record; it is 0 when the list could not be fetched, when it is
\* empty and when the total supply is zero.
C27_HighSupplyHoldersAboveTwoPercent ==
    aggPc = "returned" =>
        LET c == MemGet(Self, "holderList")
            fetched == IF c = NULL THEN <<>> ELSE c.list
            totalSupply == processed.security.totalSupply
        IN  /\ totalSupply # 0 =>
                  processed.highSupplyHoldersCount =
                      Cardinality({k \in 1..Len(fetched) :
                                      fetched[k].balance * 100 > 2 * totalSupply})
            /\ (totalSupply = 0 \/ fetched = <<>>) =>
                  processed.highSupplyHoldersCount = 0

\* of four holders of a supply of 100, the two holding 10 and 3 were counted
\* and the holder of exactly 2 was not
C27_Witness ==
    /\ aggPc = "returned"
    /\ processed.security = SourceSecurity
    /\ MemGet(Self, "holderList") = SourceHolders
    /\ processed.highSupplyHoldersCount = 2

\* C30 (as stated): getProcessedTokenData issues all of its source adapter
\* calls before it waits for any of them, and the failure of one adapter
\* does not keep the others from being issued: once the call has the result
\* of one adapter, and when it returns, the metadata adapter and the DEX
\* adapter have been issued.  An adapter that has been issued has sent its
\* request or has found its record in the cache, where a successful fetch
\* leaves it.
C30_AdaptersIssuedTogether ==
    LET AdapterIssued(src, key) ==
            requests[src] > 0 \/ Truthy(MemGet(Self, key))
    IN  (built = "ok" /\ tokenAddress = GoodAddress
                      /\ aggPc \notin {"idle", "thrown"}) =>
            /\ AdapterIssued("codex", "token")
            /\ AdapterIssued("dex", "dexScreenerData")

RepeatNext ==
    \/ \E raw \in RawAddresses, apiKey \in BOOLEAN :
          Construct(raw, apiKey) /\ UNCHANGED cacheRest
    \/ \E failed \in SUBSET PricedTokens, up \in BOOLEAN :
          FetchPricesCall(failed, up) /\ UNCHANGED cacheRest
    \/ \E o \in Outcomes \cup {"empty"}, up \in BOOLEAN :
          FetchHolderListCall(o, up) /\ UNCHANGED cacheRest
    \/ Tick /\ UNCHANGED aggVars

\* C34 (as stated): no cache tier holds a record that carries a default put
\* in place of a source value: no zeroed security record, no pairless
\* DexScreener record and no price record in which the usd of some token is
\* still the "0" it started with.
C34_NoDefaultCached ==
    LET Cached(key) ==
            {memory[p][key].v : p \in {q \in Providers : memory[q][key] # NoEntry}}
                \cup {Deserialise(e.bytes) : e \in {d \in durable : d.path = CachePath(key)}}
    IN  /\ DefaultSecurity \notin Cached("tokenSecurity")
        /\ \A d \in Cached("dexScreenerData") : Len(d.pairs) > 0
        /\ \A c \in Cached("prices") : \A t \in PricedTokens : c[t].usd # 0

\* C31 (as stated): during one getProcessedTokenData call no adapter is
\* invoked a second time to retry its source, so no source receives more
\* requests than one adapter call can issue: at most MAX_RETRIES for the
\* sources fetched through fetchWithRetry and one for the others.
C31_RetryOwnedByFetchClient ==
    \A src \in Sources :
        requests[src] <= IF src \in {"security", "trade"} THEN MAX_RETRIES ELSE 1

(***************************************************************************)
(* TrustScoreManager: createTradePerformance and updateSellDetails          *)
(* (trustScoreProvider.ts:367-542, 600-689) over the trade tables of        *)
(* TrustScoreDatabase.  Amounts of money are integers in units of half a    *)
(* dollar; a timestamp is the reading of the clock, 0 standing for "".      *)
(***************************************************************************)

\* number of createTradePerformance and updateSellDetails calls followed
MaxTradeOps == 3

VARIABLES
    trades,      \* rows of the trade and simulation_trade tables, in insertion order
    balance,     \* virtual balance of the token
    txLog,       \* rows of the transactions table
    clock,       \* new Date()
    lastTradeOp  \* the call made in the latest step and how it ended

tradeVars == <<trades, balance, txLog, clock, lastTradeOp>>

Recommenders == {"r1", "r2"}

\* processedData.tradeData.price at the time of a call
TradePrices == {0, 2, 3}

\* data.buy_amount and sellDetails.sell_amount
BuyAmounts == {100}
SellAmounts == {50, 100}

\* a quotient the code computes in floating point, kept as numerator and
\* denominator
Quot(n, d) == [n |-> n, d |-> d]

NoTradeOp == [op |-> "", threw |-> FALSE, recommender |-> "", sim |-> FALSE]

\* TrustScoreDatabase.addTradePerformance(trade, isSimulation)
addTradePerformance(rows, trade, sim) == Append(rows, [trade EXCEPT !.sim = sim])

\* TrustScoreDatabase.getLatestTradePerformance(tokenAddress, recommenderId,
\* isSimulation): the row with the latest buy_timeStamp, if any
TradesOf(rows, rec, sim) ==
    {k \in 1..Len(rows) : rows[k].recommender_id = rec /\ rows[k].sim = sim}
getLatestTradePerformance(rows, rec, sim) ==
    IF TradesOf(rows, rec, sim) = {} THEN NULL
    ELSE rows[CHOOSE k \in TradesOf(rows, rec, sim) :
                 \A j \in TradesOf(rows, rec, sim) :
                    rows[j].buy_timeStamp <= rows[k].buy_timeStamp]

\* TrustScoreDatabase.updateTradePerformanceOnSell(tokenAddress, recommenderId,
\* buyTimeStamp, sellDetails, isSimulation): the row with that key takes the
\* sell fields
updateTradePerformanceOnSell(rows, rec, buyTimeStamp, d, sim) ==
    [k \in 1..Len(rows) |->
        IF /\ rows[k].recommender_id = rec
           /\ rows[k].sim = sim
           /\ rows[k].buy_timeStamp = buyTimeStamp
        THEN [rows[k] EXCEPT !.sell_price = d.sell_price,
                             !.sell_timeStamp = d.sell_timeStamp,
                             !.sell_amount = d.sell_amount,
                             !.sell_value_usd = d.sell_value_usd,
                             !.profit_usd = d.profit_usd,
                             !.profit_percent = d.profit_percent]
        ELSE rows[k]]

\* creationData of createTradePerformance
CreationData(rec, price, amount, at) ==
    [recommender_id |-> rec, sim |-> FALSE,
     buy_price |-> price, sell_price |-> 0,
     buy_timeStamp |-> at, sell_timeStamp |-> 0,
     buy_amount |-> amount, sell_amount |-> 0,
     buy_value_usd |-> amount * price, sell_value_usd |-> 0,
     profit_usd |-> 0, profit_percent |-> Quot(0, 1)]

\* tokensBalance of createTradePerformance: buy_value_usd / price, or 0 for a
\* falsy price
TokensBalance(price, amount) == IF price # 0 THEN (amount * price) \div price ELSE 0

\* sellDetailsData of updateSellDetails for the latest trade
SellDetailsDataGross(trade, price, sellAmount, sellTimeStamp) ==
    [sell_price |-> price,
     sell_timeStamp |-> sellTimeStamp,
     sell_amount |-> sellAmount,
     sell_value_usd |-> sellAmount * price,
     profit_usd |-> sellAmount * price,
     profit_percent |-> Quot(sellAmount * price * 100, trade.buy_value_usd)]
SellDetailsData(trade, price, sellAmount, sellTimeStamp) ==
    LET sell_value_usd == sellAmount * price
        profit_usd == sell_value_usd - trade.buy_value_usd
    IN  [sell_price |-> price,
         sell_timeStamp |-> sellTimeStamp,
         sell_amount |-> sellAmount,
         sell_value_usd |-> sell_value_usd,
         profit_usd |-> profit_usd,
         profit_percent |-> Quot(profit_usd * 100, trade.buy_value_usd)]

\* createTradeInBe(tokenAddress, recommenderId, data, retries = 3,
\* delayMs = 2000) against a backend whose first fails requests are rejected:
\* the requests sent, the delays waited for, whether one request went
\* through, and whether the call threw.  A request that gets any response
\* ends the loop; a rejected one is logged and, unless it was the last, is
\* followed by the delay.
createTradeInBeRethrows(fails) ==
    LET retries == 3
        delayMs == 2000
        sent == IF fails < retries THEN fails + 1 ELSE retries
    IN  [attempts |-> sent,
         delays |-> [k \in 1..(sent - 1) |-> delayMs],
         replicated |-> fails < retries,
         threw |-> fails >= retries]
createTradeInBe(fails) ==
    LET retries == 3
        delayMs == 2000
        sent == IF fails < retries THEN fails + 1 ELSE retries
    IN  [attempts |-> sent,
         delays |-> [k \in 1..(sent - 1) |-> delayMs],
         replicated |-> fails < retries,
         threw |-> FALSE]

\* createTradePerformance(runtime, tokenAddress, rec, { buy_amount: amount,
\* is_simulation: sim }) while the trade source prices the token at price and
\* the backend rejects the first fails requests.  Every call that can throw
\* (getProcessedTokenData, fetchTokenCodex, getWalletKey, fetchPrices,
\* reading the price of a null tradeData) comes before the first write, so a
\* call that throws there (throws = TRUE) writes nothing and does not reach
\* the backend.  createTradeInBe is awaited after the writes, and an error
\* of it would be thrown again by the catch block with the writes in place.
createTradePerformance(rec, sim, price, amount, throws, fails) ==
    /\ clock < MaxTradeOps
    /\ clock' = clock + 1
    /\ lastTradeOp' =
          [op |-> "create", recommender |-> rec, sim |-> sim,
           threw |-> throws \/ createTradeInBe(fails).threw,
           backend |-> IF throws
                       THEN [attempts |-> 0, delays |-> <<>>,
                             replicated |-> FALSE, threw |-> FALSE]
                       ELSE createTradeInBe(fails)]
    /\ IF throws
       THEN UNCHANGED <<trades, balance, txLog>>
       ELSE /\ trades' = addTradePerformance(trades,
                            CreationData(rec, price, amount, clock'), sim)
            /\ IF sim
               THEN /\ balance' = TokensBalance(price, amount)
                    /\ txLog' = Append(txLog, [type |-> "buy", amount |-> amount,
                                               price |-> price, timestamp |-> clock'])
               ELSE UNCHANGED <<balance, txLog>>

\* updateSellDetails(runtime, tokenAddress, rec, sellTimeStamp, { sell_amount:
\* sellAmount }, sim) while the trade source prices the token at price.  The
\* latest trade of the recommender is looked up and the row with its
\* buy_timeStamp takes the sell fields, whatever it holds; reading the
\* buy_timeStamp of a missing trade throws.
updateSellDetails(rec, sim, price, sellAmount, throws) ==
    /\ clock < MaxTradeOps
    /\ clock' = clock + 1
    /\ LET trade == getLatestTradePerformance(trades, rec, sim)
           threw == throws \/ trade = NULL
       IN  /\ lastTradeOp' = [op |-> "sell", threw |-> threw, recommender |-> rec, sim |-> sim]
           /\ IF threw
              THEN UNCHANGED <<trades, balance, txLog>>
              ELSE /\ trades' = updateTradePerformanceOnSell(trades, rec,
                                   trade.buy_timeStamp,
                                   SellDetailsData(trade, price, sellAmount, clock'), sim)
                   /\ IF sim
                      THEN /\ balance' = balance - sellAmount
                           /\ txLog' = Append(txLog, [type |-> "sell", amount |-> sellAmount,
                                                      price |-> price, timestamp |-> clock'])
                      ELSE UNCHANGED <<balance, txLog>>

TradeInit ==
    /\ trades = <<>>
    /\ balance = 0
    /\ txLog = <<>>
    /\ clock = 0
    /\ lastTradeOp = NoTradeOp

TradeNext ==
    \/ \E rec \in Recommenders, sim \in BOOLEAN, price \in TradePrices,
          amount \in BuyAmounts, throws \in BOOLEAN, fails \in 0..3 :
          createTradePerformance(rec, sim, price, amount, throws, fails)
    \/ \E rec \in Recommenders, sim \in BOOLEAN, price \in TradePrices,
          sellAmount \in SellAmounts, throws \in BOOLEAN :
          updateSellDetails(rec, sim, price, sellAmount, throws)

(***************************************************************************)
(* TrustScoreManager: updateRecommenderMetrics and its score functions      *)
(* (trustScoreProvider.ts:59-60, 191-304) over the recommender table of     *)
(* TrustScoreDatabase.  A JavaScript number is a fraction n/d in lowest     *)
(* terms with d >= 0; d = 0 stands for Infinity (n = 1), -Infinity (n = -1) *)
(* and NaN (n = 0).  Dates are in hours.                                    *)
(***************************************************************************)

\* number of updateRecommenderMetrics calls followed in one behaviour
MaxUpdates == 2

\* number of times the clock is advanced in one behaviour
MaxElapses == 1

VARIABLES
    metrics,    \* recommender table: recommender id -> RecommenderMetrics
    writes,     \* recommender id -> number of rows written so far
    updates,    \* caller -> its updateRecommenderMetrics call
    date,       \* new Date()
    passed      \* number of times the clock was advanced

metricsVars == <<metrics, writes, updates, date, passed>>

RECURSIVE GCD(_, _)
GCD(a, b) == IF b = 0 THEN a ELSE GCD(b, a % b)

\* the number n / d
Num(n, d) ==
    LET an == IF n < 0 THEN -n ELSE n
        ad == IF d < 0 THEN -d ELSE d
        g == GCD(an, ad)
    IN  IF d = 0
        THEN [n |-> IF n > 0 THEN 1 ELSE IF n < 0 THEN -1 ELSE 0, d |-> 0]
        ELSE [n |-> (IF d < 0 THEN -n ELSE n) \div g, d |-> ad \div g]

\* a + b
Add(a, b) ==
    IF a.d = 0 /\ b.d = 0
    THEN IF a.n = b.n THEN a ELSE Num(0, 0)
    ELSE Num(a.n * b.d + b.n * a.d, a.d * b.d)

\* a * b
Mul(a, b) == Num(a.n * b.n, a.d * b.d)

\* a / b
Div(a, b) == Mul(a, Num(b.d, b.n))

\* a < b, false when either is NaN
Less(a, b) ==
    /\ ~(a.d = 0 /\ a.n = 0)
    /\ ~(b.d = 0 /\ b.n = 0)
    /\ IF a.d = 0 /\ b.d = 0 THEN a.n < b.n ELSE a.n * b.d < b.n * a.d

MathAbs(a) == [a EXCEPT !.n = IF a.n < 0 THEN -a.n ELSE a.n]

\* Math.pow(base, k) for a whole k >= 0, in ten-thousandths, kept to four
\* decimal places after every multiplication
RECURSIVE MathPow(_, _)
MathPow(base, k) ==
    IF k = 0 THEN 10000 ELSE (MathPow(base, k - 1) * base.n) \div base.d

DECAY_RATE == Num(95, 100)

MAX_DECAY_DAYS == 30

\* 1000 * 60 * 60 * 24 milliseconds, in hours
Day == (1000 * 60 * 60 * 24) \div (1000 * 60 * 60)

\* the TokenPerformance rows handed to updateRecommenderMetrics
Performances ==
    {[rugPull |-> FALSE, isScam |-> FALSE, rapidDump |-> FALSE,
      suspiciousVolume |-> FALSE, priceChange24h |-> Num(10, 1)],
     [rugPull |-> TRUE, isScam |-> FALSE, rapidDump |-> TRUE,
      suspiciousVolume |-> FALSE, priceChange24h |-> Num(-60, 1)]}

calculateRiskScoreFlat(tokenPerformance) ==
    (IF tokenPerformance.rugPull THEN 10 ELSE 0)
    + (IF tokenPerformance.isScam THEN 10 ELSE 0)
    + (IF tokenPerformance.rapidDump THEN 10 ELSE 0)
    + (IF tokenPerformance.suspiciousVolume THEN 5 ELSE 0)
calculateRiskScore(tokenPerformance) ==
    LET s0 == 0
        s1 == IF tokenPerformance.rugPull THEN s0 + 10 ELSE s0
        s2 == IF tokenPerformance.isScam THEN s1 + 10 ELSE s1
        s3 == IF tokenPerformance.rapidDump THEN s2 + 5 ELSE s2
        s4 == IF tokenPerformance.suspiciousVolume THEN s3 + 5 ELSE s3
    IN  s4

calculateConsistencyScore(tokenPerformance, recommenderMetrics) ==
    MathAbs(Add(tokenPerformance.priceChange24h,
                Mul(Num(-1, 1), recommenderMetrics.avgTokenPerformance)))

calculateTrustScoreRiskOnly(tokenPerformance, recommenderMetrics) ==
    Num(calculateRiskScore(tokenPerformance), 1)
calculateTrustScore(tokenPerformance, recommenderMetrics) ==
    Div(Add(Num(calculateRiskScore(tokenPerformance), 1),
            calculateConsistencyScore(tokenPerformance, recommenderMetrics)),
        Num(2, 1))

calculateOverallRiskScore(tokenPerformance, recommenderMetrics) ==
    Div(Add(Num(calculateRiskScore(tokenPerformance), 1),
            calculateConsistencyScore(tokenPerformance, recommenderMetrics)),
        Num(2, 1))

\* Math.floor((now - lastActive) / (1000 * 60 * 60 * 24))
InactiveDays(today, lastActive) == (today - lastActive) \div Day

DecayFactorUncapped(inactiveDays) ==
    Num(MathPow(DECAY_RATE, inactiveDays), 10000)
DecayFactor(inactiveDays) ==
    Num(MathPow(DECAY_RATE,
                IF inactiveDays < MAX_DECAY_DAYS THEN inactiveDays
                                                 ELSE MAX_DECAY_DAYS),
        10000)

TotalRecommendationsKept(recommenderMetrics) ==
    recommenderMetrics.totalRecommendations
TotalRecommendations(recommenderMetrics) ==
    recommenderMetrics.totalRecommendations + 1

\* newRecommenderMetrics of updateRecommenderMetrics
NewRecommenderMetrics(recommenderMetrics, tokenPerformance, lamports, today) ==
    LET totalRecommendations == TotalRecommendations(recommenderMetrics)
        successfulRecs ==
            IF tokenPerformance.rugPull
            THEN recommenderMetrics.successfulRecs
            ELSE recommenderMetrics.successfulRecs + 1
        avgTokenPerformance ==
            Div(Add(Mul(recommenderMetrics.avgTokenPerformance,
                        Num(recommenderMetrics.totalRecommendations, 1)),
                    tokenPerformance.priceChange24h),
                Num(totalRecommendations, 1))
        inactiveDays == InactiveDays(today, recommenderMetrics.lastActiveDate)
        decayedScore ==
            Mul(recommenderMetrics.trustScore, DecayFactor(inactiveDays))
    IN  [trustScore |->
             calculateTrustScore(tokenPerformance, recommenderMetrics),
         totalRecommendations |-> totalRecommendations,
         successfulRecs |-> successfulRecs,
         avgTokenPerformance |-> avgTokenPerformance,
         riskScore |->
             calculateOverallRiskScore(tokenPerformance, recommenderMetrics),
         consistencyScore |->
             calculateConsistencyScore(tokenPerformance, recommenderMetrics),
         virtualConfidence |-> Div(Num(lamports, 1), Num(1000000, 1)),
         lastActiveDate |-> today,
         trustDecay |-> decayedScore,
         lastUpdated |-> today]

\* the caller's call reads the recommender's row
UpdateRead(c, recommenderId, tokenPerformance) ==
    /\ updates[c].pc = "idle"
    /\ writes["r1"] + writes["r2"]
         + Cardinality({u \in DOMAIN updates : updates[u].pc = "read"}) < MaxUpdates
    /\ updates' = [updates EXCEPT ![c] =
           [pc |-> "read",
            recommenderId |-> recommenderId,
            tokenPerformance |-> tokenPerformance,
            recommenderMetrics |-> metrics[recommenderId],
            readAt |-> writes[recommenderId]]]
    /\ UNCHANGED <<metrics, writes, date, passed>>

\* the lamports has arrived: the call computes the new row and writes it
UpdateWrite(c, lamports) ==
    /\ updates[c].pc = "read"
    /\ LET u == updates[c]
           new == NewRecommenderMetrics(u.recommenderMetrics,
                                        u.tokenPerformance, lamports, date)
       IN  /\ metrics' = [metrics EXCEPT ![u.recommenderId] = new]
           /\ writes' = [writes EXCEPT ![u.recommenderId] = @ + 1]
           /\ updates' = [updates EXCEPT ![c] =
                  [u EXCEPT !.pc = "done"] @@
                  [written |-> new,
                   wroteAt |-> writes[u.recommenderId] + 1]]
    /\ UNCHANGED <<date, passed>>

\* the call returns to its caller
UpdateReturn(c) ==
    /\ updates[c].pc = "done"
    /\ updates' = [updates EXCEPT ![c] = [pc |-> "idle"]]
    /\ UNCHANGED <<metrics, writes, date, passed>>

\* time passes
Elapse(hours) ==
    /\ passed < MaxElapses
    /\ passed' = passed + 1
    /\ date' = date + hours
    /\ UNCHANGED <<metrics, writes, updates>>

\* two recommenders whose rows differ in the trust score only, and two
\* callers of updateRecommenderMetrics with no call under way
MetricsInit ==
    /\ metrics = [r \in Recommenders |->
           [trustScore |-> IF r = "r1" THEN Num(80, 1) ELSE Num(40, 1),
            totalRecommendations |-> 1,
            successfulRecs |-> 1,
            avgTokenPerformance |-> Num(0, 1),
            riskScore |-> Num(0, 1),
            consistencyScore |-> Num(0, 1),
            virtualConfidence |-> Num(0, 1),
            lastActiveDate |-> 0,
            trustDecay |-> Num(0, 1),
            lastUpdated |-> 0]]
    /\ writes = [r \in Recommenders |-> 0]
    /\ updates = [c \in {1, 2} |-> [pc |-> "idle"]]
    /\ date = 0
    /\ passed = 0

\* the wallet of the recommender holds 2000000 lamports; the clock is
\* advanced by 29.5, 30 or 40 days
MetricsNext ==
    \/ \E c \in DOMAIN updates, r \in Recommenders, p \in Performances :
          UpdateRead(c, r, p)
    \/ \E c \in DOMAIN updates : UpdateWrite(c, 2000000)
    \/ \E c \in DOMAIN updates : UpdateReturn(c)
    \/ \E hours \in {708, 720, 960} : Elapse(hours)

\* the rows that caller c read and wrote, once its call has written
Done(c) == updates[c].pc = "done"

\* C12: when two calls for one recommender have both written and no other
\* call has written since the earlier of them read, the stored
\* totalRecommendations is one above what that call read if each call read
\* before the other wrote, and two above it otherwise.
C12_LostUpdateOnlyWhenInterleaved ==
    \A c1 \in DOMAIN updates, c2 \in DOMAIN updates :
        (/\ c1 # c2 /\ Done(c1) /\ Done(c2)
         /\ updates[c1].recommenderId = updates[c2].recommenderId
         /\ updates[c1].readAt <= updates[c2].readAt
         /\ writes[updates[c1].recommenderId] = updates[c1].readAt + 2)
        => LET u1 == updates[c1]
               u2 == updates[c2]
               interleave == u1.readAt < u2.wroteAt /\ u2.readAt < u1.wroteAt
               before == u1.recommenderMetrics.totalRecommendations
           IN  metrics[u1.recommenderId].totalRecommendations =
                   IF interleave THEN before + 1 ELSE before + 2

\* two calls for one recommender both read the row before either wrote it,
\* and the stored count is one above what they read
C12_Witness ==
    /\ Done(1) /\ Done(2)
    /\ updates[1].recommenderId = updates[2].recommenderId
    /\ updates[1].readAt = 0 /\ updates[2].readAt = 0
    /\ writes[updates[1].recommenderId] = 2
    /\ metrics[updates[1].recommenderId].totalRecommendations = 2

\* C13: the decayed score an update stores is the trust score it read times
\* 0.95^min(whole days since the lastActiveDate it read, 30): the same for
\* every inactivity of 30 days or more, never larger after a longer
\* inactivity, and for a trust score of 80 after 40 days 80 * 0.95^30, not
\* 80 * 0.95^40.
C13_DecayCappedAtThirtyDays ==
    \A c \in DOMAIN updates : Done(c) =>
        LET u == updates[c]
            previous == u.recommenderMetrics.trustScore
            days == (u.written.lastActiveDate
                       - u.recommenderMetrics.lastActiveDate) \div 24
            Power(k) == Num(MathPow(Num(95, 100), k), 10000)
        IN  /\ days < 30 => u.written.trustDecay = Mul(previous, Power(days))
            /\ days >= 30 => u.written.trustDecay = Mul(previous, Power(30))
            /\ (previous = Num(80, 1) /\ days = 40) =>
                   u.written.trustDecay # Mul(previous, Power(40))
            /\ \A c2 \in DOMAIN updates :
                   (/\ Done(c2)
                    /\ updates[c2].recommenderMetrics.trustScore = previous
                    /\ days <= (updates[c2].written.lastActiveDate
                                  - updates[c2].recommenderMetrics.lastActiveDate)
                                 \div 24)
                   => ~Less(u.written.trustDecay, updates[c2].written.trustDecay)

\* an update after 40 inactive days read a trust score of 80 and stored
\* 80 * 0.95^30
C13_Witness ==
    \E c \in DOMAIN updates :
        /\ Done(c)
        /\ updates[c].recommenderMetrics.trustScore = Num(80, 1)
        /\ updates[c].recommenderMetrics.lastActiveDate = 0
        /\ updates[c].written.lastActiveDate = 960
        /\ updates[c].written.trustDecay =
               Mul(Num(80, 1), Num(MathPow(Num(95, 100), 30), 10000))

\* C14 (as stated): two updates with the same token performance whose rows
\* read differ only in the trust score, or only in the days of inactivity
\* (both below 30), store different trust scores.
C14_StoredTrustBlendsDecayedPrevious ==
    \A c1 \in DOMAIN updates, c2 \in DOMAIN updates :
        (Done(c1) /\ Done(c2)) =>
            LET u1 == updates[c1]
                u2 == updates[c2]
                days1 == (u1.written.lastActiveDate
                            - u1.recommenderMetrics.lastActiveDate) \div 24
                days2 == (u2.written.lastActiveDate
                            - u2.recommenderMetrics.lastActiveDate) \div 24
                rest1 == [u1.recommenderMetrics EXCEPT
                              !.trustScore = Num(0, 1), !.lastActiveDate = 0]
                rest2 == [u2.recommenderMetrics EXCEPT
                              !.trustScore = Num(0, 1), !.lastActiveDate = 0]
                previous1 == u1.recommenderMetrics.trustScore
                previous2 == u2.recommenderMetrics.trustScore
            IN  (/\ u1.tokenPerformance = u2.tokenPerformance
                 /\ rest1 = rest2
                 /\ \/ previous1 # previous2 /\ days1 = days2
                    \/ /\ previous1 = previous2
                       /\ days1 # days2 /\ days1 < 30 /\ days2 < 30)
                => u1.written.trustScore # u2.written.trustScore

\* C15: the trust score an update stores is half the sum of
\* calculateRiskScore of the token performance and the absolute difference
\* between the token's 24h price change and the average performance in the
\* row the update read, which is also the stored consistencyScore.
C15_TrustIsMeanOfRiskAndConsistency ==
    \A c \in DOMAIN updates : Done(c) =>
        LET u == updates[c]
            change == u.tokenPerformance.priceChange24h
            average == u.recommenderMetrics.avgTokenPerformance
            difference ==
                IF Less(change, average)
                THEN Add(average, Mul(Num(-1, 1), change))
                ELSE Add(change, Mul(Num(-1, 1), average))
            risk == Num(calculateRiskScore(u.tokenPerformance), 1)
        IN  /\ u.written.consistencyScore = difference
            /\ Add(u.written.trustScore, u.written.trustScore)
                   = Add(risk, difference)

\* an update that read an average of 5 for a token that changed by 10 with
\* no risk flag stored a trust score of 2.5
C15_Witness ==
    \E c \in DOMAIN updates :
        /\ Done(c)
        /\ updates[c].recommenderMetrics.avgTokenPerformance = Num(5, 1)
        /\ updates[c].tokenPerformance.priceChange24h = Num(10, 1)
        /\ calculateRiskScore(updates[c].tokenPerformance) = 0
        /\ updates[c].written.trustScore = Num(5, 2)

(***************************************************************************)
(* Score functions applied to their arguments: suspiciousVolume and         *)
(* calculateRiskScore of TrustScoreManager (trustScoreProvider.ts:279-317)  *)
(* and normalize / calculateGemScore of TokenProvider (token.ts:1729-1748). *)
(* One call is followed at a time; scored holds its arguments and result    *)
(* until it has returned.                                                   *)
(***************************************************************************)

\* largest value of a token's signals
MaxSignal == 2

\* largest value of a threshold of the criteria
MaxThreshold == 2

VARIABLE scored     \* the last call: function, arguments, result

\* unique_wallet_24h / volume_24h > 0.5
suspiciousVolume(data) ==
    Less(Num(1, 2), Div(Num(data.unique_wallet_24h, 1), Num(data.volume_24h, 1)))

normalizeUnclamped(value, min, max) ==
    Div(Add(value, Mul(Num(-1, 1), min)), Add(max, Mul(Num(-1, 1), min)))
normalize(value, min, max) ==
    LET IsNaN(a) == a.d = 0 /\ a.n = 0
        ratio == Div(Add(value, Mul(Num(-1, 1), min)),
                     Add(max, Mul(Num(-1, 1), min)))
        \* Math.min(1, ratio)
        capped == IF IsNaN(ratio) THEN ratio
                  ELSE IF Less(ratio, Num(1, 1)) THEN ratio ELSE Num(1, 1)
        \* Math.max(0, capped)
    IN  IF IsNaN(capped) THEN capped
        ELSE IF Less(capped, Num(0, 1)) THEN Num(0, 1) ELSE capped

calculateGemScore(token, criteria) ==
    LET weights == [volume24hUSD |-> Num(3, 10),
                    liquidityUSD |-> Num(25, 100),
                    priceChange24h_percent |-> Num(25, 100),
                    marketCap |-> Num(2, 10)]
        s0 == Num(0, 1)
        s1 == Add(s0, Mul(normalize(token.volume24hUSD, Num(0, 1),
                                    criteria.volumeThreshold),
                          weights.volume24hUSD))
        s2 == Add(s1, Mul(normalize(token.liquidityUSD, Num(0, 1),
                                    criteria.liquidityThreshold),
                          weights.liquidityUSD))
        s3 == Add(s2, Mul(normalize(MathAbs(token.priceChange24h_percent),
                                    Num(0, 1), criteria.priceSurgeThreshold),
                          weights.priceChange24h_percent))
        s4 == Add(s3, Mul(Add(Num(1, 1),
                              Mul(Num(-1, 1),
                                  normalize(token.marketCap, Num(0, 1),
                                            criteria.maxMarketCap))),
                          weights.marketCap))
        score == Mul(s4, Num(100, 1))
        \* Math.round: the nearest integer, halves upwards; NaN and the
        \* infinities are returned as they are
    IN  IF score.d = 0 THEN score
        ELSE Num((2 * score.n + score.d) \div (2 * score.d), 1)

SuspiciousVolumeCall(data) ==
    /\ scored.fn = ""
    /\ scored' = [fn |-> "suspiciousVolume",
                  tradeData |-> data,
                  result |-> suspiciousVolume(data)]

CalculateRiskScoreCall(tokenPerformance) ==
    /\ scored.fn = ""
    /\ scored' = [fn |-> "calculateRiskScore",
                  tokenPerformance |-> tokenPerformance,
                  result |-> calculateRiskScore(tokenPerformance)]

CalculateGemScoreCall(token, criteria) ==
    /\ scored.fn = ""
    /\ scored' = [fn |-> "calculateGemScore",
                  token |-> token,
                  criteria |-> criteria,
                  result |-> calculateGemScore(token, criteria)]

evaluateGemCriteriaAtLeast(token, criteria) ==
    (IF ~Less(token.liquidityUSD, criteria.liquidityThreshold)
     THEN <<"High Liquidity">> ELSE <<>>)
    \o (IF ~Less(token.volume24hUSD, criteria.volumeThreshold)
        THEN <<"High Volume">> ELSE <<>>)
    \o (IF ~Less(MathAbs(token.priceChange24h_percent),
                 criteria.priceSurgeThreshold)
        THEN <<"Recent Price Surge">> ELSE <<>>)
    \o (IF ~Less(criteria.maxMarketCap, token.marketCap)
        THEN <<"Low Market Cap">> ELSE <<>>)
evaluateGemCriteria(token, criteria) ==
    (IF Less(criteria.liquidityThreshold, token.liquidityUSD)
     THEN <<"High Liquidity">> ELSE <<>>)
    \o (IF Less(criteria.volumeThreshold, token.volume24hUSD)
        THEN <<"High Volume">> ELSE <<>>)
    \o (IF Less(criteria.priceSurgeThreshold,
                MathAbs(token.priceChange24h_percent))
        THEN <<"Recent Price Surge">> ELSE <<>>)
    \o (IF Less(token.marketCap, criteria.maxMarketCap)
        THEN <<"Low Market Cap">> ELSE <<>>)

\* findGemTokens over the list fetchTrendingTokens returned; the dexData of
\* a trending token is what fetchDexScreenerDataByToken returns for its
\* address, NULL when there is no matching pair or the fetch fails
findGemTokens(trendingTokens, criteria) ==
    LET gem(token) ==
            IF token.dexData = NULL THEN NULL
            ELSE LET processedData ==
                         [address |-> token.address] @@ token.dexData
                     criteriaMatches ==
                         evaluateGemCriteria(processedData, criteria)
                 IN  IF Len(criteriaMatches) > 0
                     THEN processedData @@ [criteriaMatch |-> criteriaMatches]
                     ELSE NULL
        gems == [k \in 1..Len(trendingTokens) |-> gem(trendingTokens[k])]
    IN  SelectSeq(gems, LAMBDA g : g # NULL)

FindGemTokensCall(trendingTokens, criteria) ==
    /\ scored.fn = ""
    /\ scored' = [fn |-> "findGemTokens",
                  trendingTokens |-> trendingTokens,
                  criteria |-> criteria,
                  result |-> findGemTokens(trendingTokens, criteria)]

\* holderDistributionTrend of the six unique-wallet change buckets
analyzeHolderDistribution(data) ==
    LET \* tradeData?.field ?? 0
        Coalesce(v) == IF v = NULL THEN Num(0, 1) ELSE v
        intervals ==
            <<[period |-> "30m",
               change |-> Coalesce(data.unique_wallet_30m_change_percent)],
              [period |-> "1h",
               change |-> Coalesce(data.unique_wallet_1h_change_percent)],
              [period |-> "2h",
               change |-> Coalesce(data.unique_wallet_2h_change_percent)],
              [period |-> "4h",
               change |-> Coalesce(data.unique_wallet_4h_change_percent)],
              [period |-> "8h",
               change |-> Coalesce(data.unique_wallet_8h_change_percent)],
              [period |-> "24h",
               change |-> Coalesce(data.unique_wallet_24h_change_percent)]>>
        changes == [k \in 1..Len(intervals) |-> intervals[k].change]
        validChanges ==
            SelectSeq(changes,
                      LAMBDA change : change # NULL
                                        /\ ~(change.d = 0 /\ change.n = 0))
        \* validChanges.reduce((acc, curr) => acc + curr, 0)
        sum[k \in 0..Len(validChanges)] ==
            IF k = 0 THEN Num(0, 1) ELSE Add(sum[k - 1], validChanges[k])
        averageChange ==
            Div(sum[Len(validChanges)], Num(Len(validChanges), 1))
    IN  IF Len(validChanges) = 0 THEN "stable"
        ELSE IF Less(Num(10, 1), averageChange) THEN "increasing"
        ELSE IF Less(averageChange, Num(-10, 1)) THEN "decreasing"
        ELSE "stable"

\* the 8h and 24h fields of the tradeData that fetchTokenTradeData builds
\* from the overview of the source, one field for each way a field is
\* copied: with || 0, as it is, and with || null; the 30m to 4h wallet
\* changes, copied with || 0, are 0 in the overview
TokenTradeDataOf(overview) ==
    LET \* a || b
        OrElse(a, b) ==
            IF a = NULL \/ a = Num(0, 1) \/ a = Num(0, 0) THEN b ELSE a
    IN  [unique_wallet_30m_change_percent |-> OrElse(Num(0, 1), Num(0, 1)),
         unique_wallet_1h_change_percent |-> OrElse(Num(0, 1), Num(0, 1)),
         unique_wallet_2h_change_percent |-> OrElse(Num(0, 1), Num(0, 1)),
         unique_wallet_4h_change_percent |-> OrElse(Num(0, 1), Num(0, 1)),
         unique_wallet_8h |-> OrElse(overview.uniqueWallet8h, Num(0, 1)),
         unique_wallet_8h_change_percent |->
             overview.uniqueWallet8hChangePercent,
         trade_8h_change_percent |->
             OrElse(overview.trade8hChangePercent, NULL),
         unique_wallet_24h |-> OrElse(overview.uniqueWallet24h, Num(0, 1)),
         unique_wallet_24h_change_percent |->
             overview.uniqueWallet24hChangePercent,
         trade_24h_change_percent |->
             OrElse(overview.trade24hChangePercent, NULL)]

AnalyzeHolderDistributionCall(data) ==
    /\ scored.fn = ""
    /\ scored' = [fn |-> "analyzeHolderDistribution",
                  tradeData |-> data,
                  result |-> analyzeHolderDistribution(data)]

\* the trade data built from an overview, and the trend derived from it
TradeDataCall(overview) ==
    /\ scored.fn = ""
    /\ scored' = [fn |-> "fetchTokenTradeData",
                  overview |-> overview,
                  result |-> TokenTradeDataOf(overview),
                  holderDistributionTrend |->
                      analyzeHolderDistribution(TokenTradeDataOf(overview))]

\* RiskAnalyzer.calculateRiskMetrics(tokenAddress), where processedData is
\* what getProcessedTokenData returned or THROWN when it threw.  Each
\* component catches its own errors (a property read on null) and returns its
\* default; weights are the decimal fractions of the source, exactly.
calculateRiskMetrics(tokenAddr, processedData) ==
    LET data == processedData
        \* r.f, undefined when the record has no such property
        Field(r, f) == IF f \in DOMAIN r THEN r[f] ELSE NULL
        \* a flag that is set, a missing one being undefined
        Flag(r, f) == f \in DOMAIN r /\ r[f]
        \* a || 0
        OrZero(a) ==
            IF a = NULL \/ a = Num(0, 1) \/ a = Num(0, 0) THEN Num(0, 1) ELSE a
        MathMin(a, b) == IF Less(b, a) THEN b ELSE a
        MathMax(a, b) == IF Less(a, b) THEN b ELSE a
        \* Math.round of a finite number
        MathRound(a) == Num((2 * a.n + a.d) \div (2 * a.d), 1)
        Hundred == Num(100, 1)
        calculateVolatility ==
            IF data.tradeData = NULL THEN Num(50, 1)
            ELSE MathMin(Hundred,
                   Add(Mul(MathAbs(OrZero(Field(data.tradeData,
                                      "price_change_1h_percent"))), Num(3, 10)),
                       Mul(MathAbs(OrZero(Field(data.tradeData,
                                      "price_change_24h_percent"))), Num(7, 10))))
        \* data.dexScreenerData?.pairs?.[0]
        first == IF data.dexScreenerData = NULL
                    \/ Len(data.dexScreenerData.pairs) = 0
                 THEN NULL ELSE data.dexScreenerData.pairs[1]
        liquidity == IF first = NULL \/ Field(first, "liquidity") = NULL
                     THEN Num(0, 1) ELSE OrZero(Field(first.liquidity, "usd"))
        marketCap == IF first = NULL THEN Num(0, 1)
                     ELSE OrZero(Field(first, "marketCap"))
        calculateLiquidityRisk ==
            IF marketCap = Num(0, 1) THEN Hundred
            ELSE MathMin(Hundred,
                   MathMax(Num(0, 1),
                     Add(Hundred,
                         Mul(Num(-1, 1),
                             Mul(Div(liquidity, marketCap), Hundred)))))
        calculateHolderConcentration ==
            IF data.security = NULL THEN Num(50, 1)
            ELSE MathMin(Hundred,
                   Mul(Div(OrZero(Field(data.security, "top10HolderPercent")),
                           Num(80, 1)), Hundred))
        calculateSecurityScore ==
            IF data.tokenCodex = NULL \/ data.security = NULL THEN Num(70, 1)
            ELSE MathMin(Hundred,
                   Add(Add(Mul(IF Flag(data.tokenCodex, "blueCheckmark")
                               THEN Num(0, 1) ELSE Hundred, Num(3, 10)),
                           Mul(OrZero(Field(data.security, "creatorPercentage")),
                               Num(4, 10))),
                       Mul(IF Flag(data.tokenCodex, "isScam")
                           THEN Hundred ELSE Num(0, 1), Num(3, 10))))
        calculateMarketStability ==
            IF data.tradeData = NULL THEN Num(50, 1)
            ELSE MathMin(Hundred,
                   Add(Add(Mul(MathMin(Hundred, MathAbs(OrZero(Field(data.tradeData,
                                   "trade_24h_change_percent")))), Num(4, 10)),
                           Mul(MathMin(Hundred, MathAbs(OrZero(Field(data.tradeData,
                                   "volume_24h_change_percent")))), Num(3, 10))),
                       Mul(MathMin(Hundred, MathAbs(OrZero(Field(data.tradeData,
                               "unique_wallet_24h_change_percent")))), Num(3, 10))))
        calculateOverallRisk ==
            MathMin(Hundred,
              MathRound(
                Add(Add(Add(Add(Mul(calculateVolatility, Num(25, 100)),
                                Mul(calculateLiquidityRisk, Num(25, 100))),
                            Mul(calculateHolderConcentration, Num(2, 10))),
                        Mul(calculateSecurityScore, Num(2, 10))),
                    Mul(calculateMarketStability, Num(1, 10)))))
        getDefaultRiskMetrics ==
            [volatilityScore |-> Num(50, 1), liquidityRisk |-> Num(75, 1),
             holderConcentration |-> Num(50, 1), securityScore |-> Num(70, 1),
             marketStability |-> Num(50, 1), overallRisk |-> Num(65, 1)]
    IN  IF tokenAddr = "" THEN THROWN
        ELSE IF processedData = THROWN \/ processedData = NULL
             THEN getDefaultRiskMetrics
             ELSE [volatilityScore |-> calculateVolatility,
                   liquidityRisk |-> calculateLiquidityRisk,
                   holderConcentration |-> calculateHolderConcentration,
                   securityScore |-> calculateSecurityScore,
                   marketStability |-> calculateMarketStability,
                   overallRisk |-> calculateOverallRisk]

\* calculateRiskMetrics on the snapshot that getProcessedTokenData puts
\* together from a trade record and a DEX record, or on its error
CalculateRiskMetricsCall(tokenAddr, throws, trade, pairs) ==
    /\ scored.fn = ""
    /\ LET dex == [schemaVersion |-> "1.0.0", pairs |-> pairs]
           processedData ==
               IF throws THEN THROWN
               ELSE [security |-> [top10HolderPercent |-> Num(40, 1)],
                     tradeData |-> trade,
                     dexScreenerData |-> dex,
                     isDexScreenerListed |-> isDexScreenerListed(dex),
                     isDexScreenerPaid |-> isDexScreenerPaid(dex),
                     tokenCodex |-> [isScam |-> FALSE]]
       IN  scored' = [fn |-> "calculateRiskMetrics",
                      tokenAddress |-> tokenAddr,
                      processedData |-> processedData,
                      result |-> calculateRiskMetrics(tokenAddr, processedData)]

\* getHighestLiquidityPair: null for an empty list, otherwise the first pair
\* after a stable sort by liquidity.usd, then by marketCap, both descending
getHighestLiquidityPair(dex) ==
    LET pairs == dex.pairs
        \* the comparator puts a before b
        Before(a, b) ==
            \/ Less(b.liquidity.usd, a.liquidity.usd)
            \/ /\ b.liquidity.usd = a.liquidity.usd
               /\ Less(b.marketCap, a.marketCap)
        top == {k \in 1..Len(pairs) :
                    \A j \in 1..Len(pairs) : ~Before(pairs[j], pairs[k])}
    IN  IF Len(pairs) = 0 THEN NULL
        ELSE pairs[CHOOSE k \in top : \A j \in top : k <= j]

GetHighestLiquidityPairCall(pairs) ==
    /\ scored.fn = ""
    /\ scored' = [fn |-> "getHighestLiquidityPair",
                  pairs |-> pairs,
                  result |-> getHighestLiquidityPair(
                                 [schemaVersion |-> "1.0.0", pairs |-> pairs])]

\* MarketAnalyzer.analyzeTokenMetrics(tokenAddress), where processedData is
\* what getProcessedTokenData returned or THROWN when it threw.  A field of
\* the trade record that is null or undefined is NULL.  Every component
\* reads the trade record inside its own try block, so a null trade record
\* (a property read on null) gives the default of the component; safeAnalyze
\* has nothing left to catch.
analyzeTokenMetrics(tokenAddr, processedData) ==
    LET data == processedData
        Zero == Num(0, 1)
        Hundred == Num(100, 1)
        \* r.f, undefined when the record has no such property
        Field(r, f) == IF f \in DOMAIN r THEN r[f] ELSE NULL
        \* a || b
        OrElse(a, b) == IF a = NULL \/ a = Zero \/ a = Num(0, 0) THEN b ELSE a
        MathMin(a, b) == IF Less(b, a) THEN b ELSE a
        td(f) == Field(data.tradeData, f)
        \* data.dexScreenerData?.pairs?.[0]
        pairs == IF data.dexScreenerData = NULL THEN <<>>
                 ELSE data.dexScreenerData.pairs
        pair == IF Len(pairs) = 0 THEN NULL ELSE pairs[1]
        LiquidityUsd(q) ==
            IF q = NULL \/ Field(q, "liquidity") = NULL THEN Zero
            ELSE OrElse(Field(q.liquidity, "usd"), Zero)
        PairField(f, b) == IF pair = NULL THEN b ELSE OrElse(Field(pair, f), b)
        getDefaultMomentum ==
            [trend |-> "neutral", strength |-> Zero, volatility |-> Zero,
             rsi |-> Num(50, 1)]
        getDefaultVolumeProfile ==
            [volume24h |-> Zero, volumeChange |-> Zero,
             buyVolumeRatio |-> Num(50, 1), volumeTrend |-> "stable"]
        getDefaultMarketStructure ==
            [marketCap |-> Zero, fullyDilutedValue |-> Zero,
             liquidityUSD |-> Zero, priceDiscovery |-> "insufficient_data"]
        getDefaultTradingActivity ==
            [uniqueTraders24h |-> Zero, tradeCount24h |-> Zero,
             averageTradeSize |-> Zero,
             tradingPattern |-> [buyPressure |-> "neutral",
                                 traderDiversity |-> "low",
                                 intensity |-> "low"]]
        getDefaultLiquidityMetrics ==
            [liquidityDepth |-> Zero, liquidityScore |-> Zero,
             liquidityChange24h |-> Zero, liquidityConcentration |-> Hundred]
        change1h == OrElse(td("price_change_1h_percent"), Zero)
        change24h == OrElse(td("price_change_24h_percent"), Zero)
        calculateTrend ==
            LET weightedChange == Add(Mul(change1h, Num(3, 10)),
                                      Mul(change24h, Num(7, 10)))
            IN  IF Less(Num(5, 1), weightedChange) THEN "bullish"
                ELSE IF Less(weightedChange, Num(-5, 1)) THEN "bearish"
                ELSE "neutral"
        calculateMomentumStrength ==
            MathMin(Hundred, Div(MathAbs(Add(change1h, change24h)), Num(2, 1)))
        \* the two price changes as the helpers below read them
        raw == <<td("price_change_1h_percent"), td("price_change_24h_percent")>>
        Sum(q) == IF Len(q) = 0 THEN Zero
                  ELSE IF Len(q) = 1 THEN q[1] ELSE Add(q[1], q[2])
        Average(q) == Div(Sum(q), Num(Len(q), 1))
        calculateVolatility ==
            LET changes == SelectSeq(raw, LAMBDA change : change # NULL)
                magnitudes == [k \in 1..Len(changes) |-> MathAbs(changes[k])]
            IN  IF Len(changes) = 0 THEN Zero
                ELSE MathMin(Hundred, Average(magnitudes))
        calculateSimpleRSI ==
            LET gains == SelectSeq(raw, LAMBDA change :
                                           Less(Zero, OrElse(change, Zero)))
                losses == SelectSeq(raw, LAMBDA change :
                                            Less(OrElse(change, Zero), Zero))
                avgGain == IF Len(gains) > 0 THEN Average(gains) ELSE Zero
                avgLoss == IF Len(losses) > 0 THEN MathAbs(Average(losses))
                           ELSE Zero
                rs == Div(avgGain, avgLoss)
            IN  IF avgLoss = Zero THEN Hundred
                ELSE Add(Hundred,
                         Mul(Num(-1, 1), Div(Hundred, Add(Num(1, 1), rs))))
        analyzeMomentum ==
            IF data.tradeData = NULL THEN getDefaultMomentum
            ELSE [trend |-> calculateTrend,
                  strength |-> calculateMomentumStrength,
                  volatility |-> calculateVolatility,
                  rsi |-> calculateSimpleRSI]
        volume == OrElse(td("volume_24h"), Zero)
        calculateBuyVolumeRatio ==
            IF volume = Zero THEN Zero
            ELSE Mul(Div(OrElse(td("volume_buy_24h"), Zero), volume), Hundred)
        volumeChange == OrElse(td("volume_24h_change_percent"), Zero)
        calculateVolumeTrend ==
            IF Less(Num(20, 1), volumeChange) THEN "increasing"
            ELSE IF Less(volumeChange, Num(-20, 1)) THEN "decreasing"
            ELSE "stable"
        analyzeVolumeProfile ==
            IF data.tradeData = NULL THEN getDefaultVolumeProfile
            ELSE [volume24h |-> volume,
                  volumeChange |-> volumeChange,
                  buyVolumeRatio |-> calculateBuyVolumeRatio,
                  volumeTrend |-> calculateVolumeTrend]
        assessPriceDiscovery ==
            LET ratio == Div(volume, LiquidityUsd(pair))
            IN  IF LiquidityUsd(pair) = Zero THEN "insufficient_data"
                ELSE IF Less(Num(1, 1), ratio) THEN "high"
                ELSE IF Less(Num(1, 10), ratio) THEN "medium"
                ELSE "low"
        \* assessPriceDiscovery reads data.tradeData.volume_24h
        analyzeMarketStructure ==
            IF data.tradeData = NULL THEN getDefaultMarketStructure
            ELSE [marketCap |-> PairField("marketCap", Zero),
                  fullyDilutedValue |-> PairField("fdv", Zero),
                  liquidityUSD |-> LiquidityUsd(pair),
                  priceDiscovery |-> assessPriceDiscovery]
        uniqueWallets == OrElse(td("unique_wallet_24h"), Zero)
        tradeCount == OrElse(td("trade_24h"), Zero)
        calculateAverageTradeSize ==
            Div(volume, OrElse(td("trade_24h"), Num(1, 1)))
        analyzeTradingPattern ==
            [buyPressure |->
                 IF Less(Num(60, 1), calculateBuyVolumeRatio) THEN "high"
                 ELSE IF Less(calculateBuyVolumeRatio, Num(40, 1)) THEN "low"
                 ELSE "neutral",
             traderDiversity |->
                 IF Less(Hundred, uniqueWallets) THEN "high"
                 ELSE IF Less(Num(50, 1), uniqueWallets) THEN "medium"
                 ELSE "low",
             intensity |->
                 IF Less(Num(1000, 1), tradeCount) THEN "high"
                 ELSE IF Less(Num(500, 1), tradeCount) THEN "medium"
                 ELSE "low"]
        analyzeTradingActivity ==
            IF data.tradeData = NULL THEN getDefaultTradingActivity
            ELSE [uniqueTraders24h |-> uniqueWallets,
                  tradeCount24h |-> tradeCount,
                  averageTradeSize |-> calculateAverageTradeSize,
                  tradingPattern |-> analyzeTradingPattern]
        calculateLiquidityScore ==
            MathMin(Hundred,
                    Mul(Div(LiquidityUsd(pair), PairField("marketCap", Num(1, 1))),
                        Hundred))
        calculateLiquidityChange ==
            LET currentLiquidity == LiquidityUsd(pair)
                previousLiquidity == Mul(currentLiquidity, Num(95, 100))
            IN  IF pair = NULL \/ previousLiquidity = Zero THEN Zero
                ELSE Mul(Div(Add(currentLiquidity,
                                 Mul(Num(-1, 1), previousLiquidity)),
                             previousLiquidity), Hundred)
        calculateLiquidityConcentration ==
            LET totalLiquidity ==
                    Sum([k \in 1..Len(pairs) |-> LiquidityUsd(pairs[k])])
            IN  IF Len(pairs) <= 1 THEN Hundred
                ELSE IF totalLiquidity = Zero THEN Zero
                ELSE Mul(Div(LiquidityUsd(pairs[1]), totalLiquidity), Hundred)
        analyzeLiquidityMetrics ==
            [liquidityDepth |-> LiquidityUsd(pair),
             liquidityScore |-> calculateLiquidityScore,
             liquidityChange24h |-> calculateLiquidityChange,
             liquidityConcentration |-> calculateLiquidityConcentration]
    IN  IF tokenAddr = "" THEN THROWN
        ELSE IF processedData = THROWN \/ processedData = NULL
             THEN [momentum |-> getDefaultMomentum,
                   volumeProfile |-> getDefaultVolumeProfile,
                   marketStructure |-> getDefaultMarketStructure,
                   tradingActivity |-> getDefaultTradingActivity,
                   liquidityMetrics |-> getDefaultLiquidityMetrics]
             ELSE [momentum |-> analyzeMomentum,
                   volumeProfile |-> analyzeVolumeProfile,
                   marketStructure |-> analyzeMarketStructure,
                   tradingActivity |-> analyzeTradingActivity,
                   liquidityMetrics |-> analyzeLiquidityMetrics]

\* analyzeTokenMetrics on the snapshot that getProcessedTokenData puts
\* together from a trade record and a DEX record, or on its error
AnalyzeTokenMetricsCall(tokenAddr, throws, trade, pairs) ==
    /\ scored.fn = ""
    /\ LET processedData ==
               IF throws THEN THROWN
               ELSE [tradeData |-> trade,
                     dexScreenerData |-> [schemaVersion |-> "1.0.0",
                                          pairs |-> pairs]]
       IN  scored' = [fn |-> "analyzeTokenMetrics",
                      tokenAddress |-> tokenAddr,
                      processedData |-> processedData,
                      result |-> analyzeTokenMetrics(tokenAddr, processedData)]

\* the call returns
ScoreReturn ==
    /\ scored.fn # ""
    /\ scored' = [fn |-> ""]

ScoreInit == scored = [fn |-> ""]

\* trade data with 0, 1 or 50 wallets and a volume of 0, 50 or 200; token
\* performances with every combination of the four risk flags; tokens with
\* signals up to MaxSignal, the price change of either sign, and criteria
\* with thresholds from 0 to MaxThreshold; lists of up to two trending
\* tokens, each without DEX data or with signals below, at and above the
\* thresholds of the criteria, which are all 1
ScoreNext ==
    \/ /\ scored.fn = ""
       /\ \E w \in {0, 1, 50}, v \in {0, 50, 200} :
             SuspiciousVolumeCall([unique_wallet_24h |-> w, volume_24h |-> v])
    \/ /\ scored.fn = ""
       /\ \E rug \in BOOLEAN, scam \in BOOLEAN, dump \in BOOLEAN,
             susp \in BOOLEAN :
             CalculateRiskScoreCall(
                 [rugPull |-> rug, isScam |-> scam, rapidDump |-> dump,
                  suspiciousVolume |-> susp, priceChange24h |-> Num(0, 1)])
    \/ /\ scored.fn = ""
       /\ \E vol \in 0..MaxSignal, liq \in 0..MaxSignal,
             chg \in (-MaxSignal)..MaxSignal, cap \in 0..MaxSignal,
             tv \in 0..MaxThreshold, tl \in 0..MaxThreshold,
             tp \in 0..MaxThreshold, tm \in 0..MaxThreshold :
             CalculateGemScoreCall(
                 [volume24hUSD |-> Num(vol, 1), liquidityUSD |-> Num(liq, 1),
                  priceChange24h_percent |-> Num(chg, 1),
                  marketCap |-> Num(cap, 1)],
                 [volumeThreshold |-> Num(tv, 1),
                  liquidityThreshold |-> Num(tl, 1),
                  priceSurgeThreshold |-> Num(tp, 1),
                  maxMarketCap |-> Num(tm, 1)])
    \/ /\ scored.fn = ""
       /\ \E n \in 0..2 :
            \E dex \in [1..n ->
                          {NULL} \cup
                          [volume24hUSD : {Num(0, 1), Num(2, 1)},
                           liquidityUSD : {Num(0, 1), Num(1, 1), Num(2, 1)},
                           priceChange24h_percent : {Num(-2, 1), Num(0, 1)},
                           marketCap : {Num(0, 1), Num(1, 1), Num(2, 1)}]] :
               FindGemTokensCall(
                   [k \in 1..n |-> [address |-> k, dexData |-> dex[k]]],
                   [volumeThreshold |-> Num(1, 1),
                    liquidityThreshold |-> Num(1, 1),
                    priceSurgeThreshold |-> Num(1, 1),
                    maxMarketCap |-> Num(1, 1)])
    \/ /\ scored.fn = ""
       /\ \E data \in [{"unique_wallet_30m_change_percent",
                        "unique_wallet_1h_change_percent",
                        "unique_wallet_2h_change_percent",
                        "unique_wallet_4h_change_percent",
                        "unique_wallet_8h_change_percent",
                        "unique_wallet_24h_change_percent"} ->
                          {NULL, Num(-30, 1), Num(0, 1), Num(30, 1)}] :
             AnalyzeHolderDistributionCall(data)
    \/ /\ scored.fn = ""
       /\ \E overview \in [{"uniqueWallet8h", "uniqueWallet8hChangePercent",
                            "trade8hChangePercent", "uniqueWallet24h",
                            "uniqueWallet24hChangePercent",
                            "trade24hChangePercent"} ->
                              {NULL, Num(0, 1), Num(60, 1)}] :
             TradeDataCall(overview)
    \/ /\ scored.fn = ""
       /\ \E tokenAddr \in {"", "mint"}, throws \in BOOLEAN,
             trade \in {NULL, [price_change_1h_percent |-> Num(10, 1),
                               price_change_24h_percent |-> Num(-20, 1),
                               trade_24h_change_percent |-> Num(30, 1),
                               unique_wallet_24h_change_percent |-> Num(-10, 1)]},
             n \in 0..2 :
            \E pairs \in [1..n ->
                            [liquidity : {[usd |-> Num(1, 1)], [usd |-> Num(3, 1)]},
                             marketCap : {Num(0, 1), Num(2, 1), Num(4, 1)},
                             boosts : {NULL, [active |-> 0], [active |-> 1]}]] :
               CalculateRiskMetricsCall(tokenAddr, throws, trade, pairs)
    \/ /\ scored.fn = ""
       /\ \E n \in 0..2 :
            \E pairs \in [1..n ->
                            [liquidity : {[usd |-> Num(1, 1)], [usd |-> Num(3, 1)]},
                             marketCap : {Num(0, 1), Num(2, 1), Num(4, 1)},
                             boosts : {NULL}]] :
               GetHighestLiquidityPairCall(pairs)
    \/ /\ scored.fn = ""
       /\ \E tokenAddr \in {"", "mint"}, throws \in BOOLEAN,
             trade \in {NULL} \cup
                 [price_change_1h_percent :
                      {NULL, Num(0, 1), Num(10, 1), Num(-10, 1)},
                  price_change_24h_percent : {NULL, Num(20, 1)},
                  volume_24h : {NULL, Num(100, 1)},
                  volume_buy_24h : {NULL, Num(70, 1)},
                  volume_24h_change_percent : {NULL, Num(30, 1)},
                  unique_wallet_24h : {NULL, Num(60, 1)},
                  trade_24h : {NULL, Num(600, 1)}],
             n \in 0..2 :
            \E pairs \in [1..n -> [liquidity : {[usd |-> Num(0, 1)],
                                                [usd |-> Num(50, 1)]},
                                   marketCap : {Num(0, 1), Num(200, 1)},
                                   fdv : {Num(300, 1)}]] :
               AnalyzeTokenMetricsCall(tokenAddr, throws, trade, pairs)
    \/ ScoreReturn

\* C16: calculateRiskScore returns 10 for rugPull plus 10 for isScam plus 5
\* for rapidDump plus 5 for suspiciousVolume: 0 with no flag, each flag adding
\* its penalty whatever the other flags are, never above 30, and 30 only with
\* all four flags.
C16_RiskScoreIsSumOfPenalties ==
    scored.fn = "calculateRiskScore" =>
        LET p == scored.tokenPerformance
            Penalty(flag, points) == IF flag THEN points ELSE 0
            flags == {"rugPull", "isScam", "rapidDump", "suspiciousVolume"}
            points == [rugPull |-> 10, isScam |-> 10, rapidDump |-> 5,
                       suspiciousVolume |-> 5]
        IN  /\ scored.result = Penalty(p.rugPull, 10) + Penalty(p.isScam, 10)
                                 + Penalty(p.rapidDump, 5)
                                 + Penalty(p.suspiciousVolume, 5)
            /\ (\A f \in flags : ~p[f]) => scored.result = 0
            /\ \A f \in flags :
                   ~p[f] => calculateRiskScore([p EXCEPT ![f] = TRUE])
                              = scored.result + points[f]
            /\ scored.result <= 30
            /\ scored.result = 30 <=> \A f \in flags : p[f]

\* calculateRiskScore was called with all four flags set and returned 30
C16_Witness ==
    /\ scored.fn = "calculateRiskScore"
    /\ scored.tokenPerformance.rugPull
    /\ scored.tokenPerformance.isScam
    /\ scored.tokenPerformance.rapidDump
    /\ scored.tokenPerformance.suspiciousVolume
    /\ scored.result = 30

\* C17 (as stated): suspiciousVolume is true exactly when volume_24h is not 0
\* and unique_wallet_24h / volume_24h > 0.5, so it is false whenever
\* volume_24h is 0.
C17_SuspiciousVolumeGuardsZero ==
    scored.fn = "suspiciousVolume" =>
        /\ scored.result <=>
               /\ scored.tradeData.volume_24h # 0
               /\ 2 * scored.tradeData.unique_wallet_24h
                      > scored.tradeData.volume_24h
        /\ scored.tradeData.volume_24h = 0 => ~scored.result

\* C18: with four positive thresholds calculateGemScore returns
\* round(100 * (0.30 n(volume) + 0.25 n(liquidity) + 0.25 n(|price change|)
\* + 0.20 (1 - n(market cap)))), n(v, t) being v / t kept between 0 and 1.
\* Over the denominator tv * tl * tp * tm the sum is a quotient of integers,
\* rounded to the nearest integer with halves upwards.
C18_GemScoreIsWeightedSum ==
    (/\ scored.fn = "calculateGemScore"
     /\ scored.criteria.volumeThreshold.n > 0
     /\ scored.criteria.liquidityThreshold.n > 0
     /\ scored.criteria.priceSurgeThreshold.n > 0
     /\ scored.criteria.maxMarketCap.n > 0)
    => LET Clamp(v, t) == IF v < 0 THEN 0 ELSE IF v > t THEN t ELSE v
           Abs(v) == IF v < 0 THEN -v ELSE v
           tv == scored.criteria.volumeThreshold.n
           tl == scored.criteria.liquidityThreshold.n
           tp == scored.criteria.priceSurgeThreshold.n
           tm == scored.criteria.maxMarketCap.n
           nv == Clamp(scored.token.volume24hUSD.n, tv)
           nl == Clamp(scored.token.liquidityUSD.n, tl)
           np == Clamp(Abs(scored.token.priceChange24h_percent.n), tp)
           nm == Clamp(scored.token.marketCap.n, tm)
           denominator == tv * tl * tp * tm
           numerator == 30 * nv * tl * tp * tm + 25 * nl * tv * tp * tm
                          + 25 * np * tv * tl * tm
                          + 20 * (tm - nm) * tv * tl * tp
       IN  /\ scored.result.d = 1
           /\ scored.result.n =
                  (2 * numerator + denominator) \div (2 * denominator)

\* calculateGemScore was called with volume 1 of 2, liquidity 2 of 2, a price
\* change of -2 of 2 and market cap 2 of 2, and returned 65
C18_Witness ==
    /\ scored.fn = "calculateGemScore"
    /\ scored.token = [volume24hUSD |-> Num(1, 1), liquidityUSD |-> Num(2, 1),
                       priceChange24h_percent |-> Num(-2, 1),
                       marketCap |-> Num(2, 1)]
    /\ scored.criteria = [volumeThreshold |-> Num(2, 1),
                          liquidityThreshold |-> Num(2, 1),
                          priceSurgeThreshold |-> Num(2, 1),
                          maxMarketCap |-> Num(2, 1)]
    /\ scored.result = Num(65, 1)

\* C19 (as stated): for numeric signals and non-negative thresholds, a
\* threshold of 0 included, calculateGemScore returns an integer from 0 to
\* 100.
C19_GemScoreIsIntegerInRange ==
    scored.fn = "calculateGemScore" =>
        /\ scored.result.d = 1
        /\ scored.result.n >= 0
        /\ scored.result.n <= 100

\* C20 (as stated): with the criteria and the other three signals fixed,
\* calculateGemScore does not decrease when volume24hUSD, liquidityUSD or
\* |priceChange24h_percent| grows, and does not increase when marketCap
\* grows.
C20_GemScoreMonotonic ==
    scored.fn = "calculateGemScore" =>
        LET t == scored.token
            Leq(a, b) == /\ ~(a.d = 0 /\ a.n = 0)
                         /\ ~(b.d = 0 /\ b.n = 0)
                         /\ ~Less(b, a)
            More(signal) ==
                [t EXCEPT ![signal] =
                     IF Less(@, Num(0, 1)) THEN Add(@, Num(-1, 1))
                                           ELSE Add(@, Num(1, 1))]
        IN  /\ \A signal \in {"volume24hUSD", "liquidityUSD",
                              "priceChange24h_percent"} :
                   Leq(scored.result,
                       calculateGemScore(More(signal), scored.criteria))
            /\ Leq(calculateGemScore(More("marketCap"), scored.criteria),
                   scored.result)

\* C21: every token findGemTokens returns is a trending token with DEX data
\* that matched at least one of liquidity > liquidityThreshold, volume >
\* volumeThreshold, |24h price change| > priceSurgeThreshold and market cap
\* < maxMarketCap, and its criteriaMatch names exactly the criteria it
\* matched; a trending token that matched none, or has no DEX data, is not
\* returned.
C21_GemsMatchSomeCriterion ==
    scored.fn = "findGemTokens" =>
        LET c == scored.criteria
            Abs(v) == IF v < 0 THEN -v ELSE v
            Matched(d) ==
                {x \in {"High Liquidity"} :
                     d.liquidityUSD.n > c.liquidityThreshold.n}
                \cup {x \in {"High Volume"} :
                          d.volume24hUSD.n > c.volumeThreshold.n}
                \cup {x \in {"Recent Price Surge"} :
                          Abs(d.priceChange24h_percent.n)
                              > c.priceSurgeThreshold.n}
                \cup {x \in {"Low Market Cap"} :
                          d.marketCap.n < c.maxMarketCap.n}
            Returned(address) ==
                \E k \in 1..Len(scored.result) :
                    scored.result[k].address = address
        IN  /\ \A k \in 1..Len(scored.result) :
                   LET g == scored.result[k]
                       t == scored.trendingTokens[g.address]
                   IN  /\ g.address \in 1..Len(scored.trendingTokens)
                       /\ t.dexData # NULL
                       /\ Matched(t.dexData) # {}
                       /\ {g.criteriaMatch[j] : j \in 1..Len(g.criteriaMatch)}
                              = Matched(t.dexData)
                       /\ Len(g.criteriaMatch) = Cardinality(Matched(t.dexData))
            /\ \A k \in 1..Len(scored.trendingTokens) :
                   LET t == scored.trendingTokens[k]
                   IN  (t.dexData = NULL \/ Matched(t.dexData) = {})
                           => ~Returned(k)

\* of two trending tokens, the first had liquidity equal to the threshold
\* and matched nothing, the second matched on liquidity only: findGemTokens
\* returned the second alone
C21_Witness ==
    /\ scored.fn = "findGemTokens"
    /\ Len(scored.trendingTokens) = 2
    /\ scored.trendingTokens[1].dexData =
           [volume24hUSD |-> Num(0, 1), liquidityUSD |-> Num(1, 1),
            priceChange24h_percent |-> Num(0, 1), marketCap |-> Num(1, 1)]
    /\ Len(scored.result) = 1
    /\ scored.result[1].address = 2
    /\ scored.result[1].criteriaMatch = <<"High Liquidity">>

\* C22 (as stated): holderDistributionTrend follows the average of the
\* buckets that are not null, null buckets being left out of the sum and of
\* the count: increasing above 10, decreasing below -10, stable otherwise
\* and when every bucket is null.
C22_TrendIgnoresNullBuckets ==
    scored.fn = "analyzeHolderDistribution" =>
        LET buckets == {f \in DOMAIN scored.tradeData :
                            scored.tradeData[f] # NULL}
            Total[S \in SUBSET buckets] ==
                IF S = {} THEN 0
                ELSE LET f == CHOOSE x \in S : TRUE
                     IN  scored.tradeData[f].n + Total[S \ {f}]
            count == Cardinality(buckets)
        IN  scored.result =
                IF count = 0 THEN "stable"
                ELSE IF Total[buckets] > 10 * count THEN "increasing"
                ELSE IF Total[buckets] < -10 * count THEN "decreasing"
                ELSE "stable"

\* C23 (as stated): every 8h and 24h field of the returned trade data is 0
\* when the source reports 0 and null when the source does not provide it,
\* and the trend derived from the trade data leaves its null buckets out
\* instead of counting them as 0.
C23_NullAndZeroPreserved ==
    scored.fn = "fetchTokenTradeData" =>
        LET source == [unique_wallet_8h |-> "uniqueWallet8h",
                       unique_wallet_8h_change_percent |->
                           "uniqueWallet8hChangePercent",
                       trade_8h_change_percent |-> "trade8hChangePercent",
                       unique_wallet_24h |-> "uniqueWallet24h",
                       unique_wallet_24h_change_percent |->
                           "uniqueWallet24hChangePercent",
                       trade_24h_change_percent |-> "trade24hChangePercent"]
            changes == {f \in {"unique_wallet_30m_change_percent",
                               "unique_wallet_1h_change_percent",
                               "unique_wallet_2h_change_percent",
                               "unique_wallet_4h_change_percent",
                               "unique_wallet_8h_change_percent",
                               "unique_wallet_24h_change_percent"} :
                            scored.result[f] # NULL}
            Total[S \in SUBSET changes] ==
                IF S = {} THEN 0
                ELSE LET f == CHOOSE x \in S : TRUE
                     IN  scored.result[f].n + Total[S \ {f}]
        IN  /\ \A f \in DOMAIN source :
                   /\ scored.overview[source[f]] = Num(0, 1)
                          => scored.result[f] = Num(0, 1)
                   /\ scored.overview[source[f]] = NULL
                          => scored.result[f] = NULL
            /\ Total[changes] > 10 * Cardinality(changes)
                   => scored.holderDistributionTrend = "increasing"

C25_CanonicalPairFeedsScoring ==
    LET Canonical(pairs) ==
            {k \in DOMAIN pairs :
                \A j \in DOMAIN pairs :
                    /\ ~Less(pairs[k].liquidity.usd, pairs[j].liquidity.usd)
                    /\ pairs[j].liquidity.usd = pairs[k].liquidity.usd
                           => ~Less(pairs[k].marketCap, pairs[j].marketCap)}
    IN  /\ scored.fn = "getHighestLiquidityPair" =>
               IF scored.pairs = <<>> THEN scored.result = NULL
               ELSE \E k \in Canonical(scored.pairs) :
                        scored.result = scored.pairs[k]
        /\ (/\ scored.fn = "calculateRiskMetrics"
            /\ scored.tokenAddress # ""
            /\ scored.processedData # THROWN
            /\ scored.processedData.dexScreenerData.pairs # <<>>) =>
               LET pairs == scored.processedData.dexScreenerData.pairs
               IN  \E k \in Canonical(pairs) :
                       scored.result.liquidityRisk =
                           IF pairs[k].marketCap = Num(0, 1) THEN Num(100, 1)
                           ELSE LET risk ==
                                        Add(Num(100, 1),
                                            Mul(Num(-100, 1),
                                                Div(pairs[k].liquidity.usd,
                                                    pairs[k].marketCap)))
                                IN  IF Less(risk, Num(0, 1)) THEN Num(0, 1)
                                    ELSE risk

\* C29 (as stated): for a non-empty token address analyzeTokenMetrics does
\* not throw, its analysis is not null, each of its five components is a
\* record that is not null whatever trade or DEX-pair inputs are absent, and
\* a component whose inputs are absent holds the default values of that
\* component.
C29_AnalysisComponentsDefault ==
    (scored.fn = "analyzeTokenMetrics" /\ scored.tokenAddress # "") =>
        LET trade == IF scored.processedData = THROWN THEN NULL
                     ELSE scored.processedData.tradeData
            pairs == IF scored.processedData = THROWN THEN <<>>
                     ELSE scored.processedData.dexScreenerData.pairs
            Absent(fields) ==
                trade = NULL \/ \A f \in fields : trade[f] = NULL
        IN  /\ scored.result # THROWN
            /\ scored.result # NULL
            /\ \A c \in {"momentum", "volumeProfile", "marketStructure",
                         "tradingActivity", "liquidityMetrics"} :
                   scored.result[c] # NULL
            /\ Absent({"price_change_1h_percent", "price_change_24h_percent"})
                   => scored.result.momentum =
                          [trend |-> "neutral", strength |-> Num(0, 1),
                           volatility |-> Num(0, 1), rsi |-> Num(50, 1)]
            /\ Absent({"volume_24h", "volume_buy_24h",
                       "volume_24h_change_percent"})
                   => scored.result.volumeProfile =
                          [volume24h |-> Num(0, 1), volumeChange |-> Num(0, 1),
                           buyVolumeRatio |-> Num(50, 1),
                           volumeTrend |-> "stable"]
            /\ pairs = <<>>
                   => /\ scored.result.marketStructure =
                             [marketCap |-> Num(0, 1),
                              fullyDilutedValue |-> Num(0, 1),
                              liquidityUSD |-> Num(0, 1),
                              priceDiscovery |-> "insufficient_data"]
                      /\ scored.result.liquidityMetrics =
                             [liquidityDepth |-> Num(0, 1),
                              liquidityScore |-> Num(0, 1),
                              liquidityChange24h |-> Num(0, 1),
                              liquidityConcentration |-> Num(100, 1)]
            /\ Absent({"volume_24h", "volume_buy_24h", "unique_wallet_24h",
                       "trade_24h"})
                   => scored.result.tradingActivity =
                          [uniqueTraders24h |-> Num(0, 1),
                           tradeCount24h |-> Num(0, 1),
                           averageTradeSize |-> Num(0, 1),
                           tradingPattern |-> [buyPressure |-> "neutral",
                                               traderDiversity |-> "low",
                                               intensity |-> "low"]]

\* a position is closed once its sell fields are populated
Closed(trade) == trade.sell_timeStamp # 0

\* C11: every record holds buy_value_usd = buy_amount * price at open, and
\* every closed record holds profit_usd = sell_amount * price at close -
\* buy_value_usd and profit_percent = profit_usd / buy_value_usd * 100 (a
\* division by zero when buy_value_usd is 0); a position opened at 1.00 for
\* 100 and closed at 1.50 for 100 holds a profit of 50 USD (100 half dollars)
\* and 50 percent.
C11_ProfitOnClose ==
    \A k \in 1..Len(trades) :
        LET t == trades[k] IN
        /\ t.buy_value_usd = t.buy_amount * t.buy_price
        /\ Closed(t) =>
              /\ t.sell_value_usd = t.sell_amount * t.sell_price
              /\ t.profit_usd = t.sell_amount * t.sell_price - t.buy_value_usd
              /\ t.profit_percent.d = t.buy_value_usd
              /\ t.profit_percent.n = t.profit_usd * 100
              /\ (t.buy_price = 2 /\ t.buy_amount = 100 /\ t.sell_price = 3
                                  /\ t.sell_amount = 100) =>
                    /\ t.profit_usd = 2 * 50
                    /\ t.profit_percent.n = 50 * t.profit_percent.d

\* a position opened at 1.00 for 100 was closed at 1.50 for 100
C11_Witness ==
    \E k \in 1..Len(trades) :
        /\ Closed(trades[k])
        /\ trades[k].buy_price = 2
        /\ trades[k].buy_amount = 100
        /\ trades[k].sell_price = 3
        /\ trades[k].sell_amount = 100
        /\ trades[k].profit_usd = 100

(***************************************************************************)
(* newTrustEvaluator.handler (trustEvaluator.ts:21-22, 90-105, 132-368):    *)
(* invocations of the handler for one user and one room, each of which      *)
(* walks the recommendations extracted from the conversation and opens      *)
(* simulated positions through createTradePerformance.                      *)
(***************************************************************************)

\* number of recommendations followed in one behaviour
MaxEvalSteps == 1

\* number of milliseconds the clock of the handler advances
MaxEvalTicks == 1

VARIABLES
    evalNow,           \* Date.now(), in milliseconds
    processingTokens,  \* keys of the processingTokens map
    invocation,        \* per handler invocation: its position and processing key
    lastEval,          \* the recommendation handled in the latest step, if any
    evalSteps          \* number of recommendations handled

evalVars == <<evalNow, processingTokens, invocation, lastEval, evalSteps>>

\* handler invocations for the same user and room
Invocations == {1, 2}

RecTypes == {"buy", "dont_buy", "sell", "dont_sell"}
Convictions == {"none", "low", "medium", "high"}

\* what generateObjectArray extracts: the recommender is named, and the token
\* is given by a contract address (well-formed or not) or by a ticker that
\* getTokenFromWallet / searchDexScreenerData resolve or do not
TokenNamings == {[contractAddress |-> GoodAddress, ticker |-> NULL],
                 [contractAddress |-> BadAddress, ticker |-> NULL],
                 [contractAddress |-> NULL, ticker |-> Str("KNOWN")],
                 [contractAddress |-> NULL, ticker |-> Str("UNKNOWN")]}
Recommendations ==
    {[type |-> t, conviction |-> c, alreadyKnown |-> k,
      contractAddress |-> a.contractAddress, ticker |-> a.ticker] :
        t \in RecTypes, c \in Convictions, k \in BOOLEAN, a \in TokenNamings}

\* liquidity.usd of the first pair, 0 also standing for a token without pairs
LiquidityValues == {0, 40000}

\* prices.solana.usd
SolPrice == 100

NoInvocation == [pc |-> "idle", key |-> <<>>]
NoEval == [inv |-> 0, rec |-> NULL, resolved |-> NULL, calculated |-> 0,
           called |-> FALSE, amount |-> 0]

\* getProcessingKey: `${message.userId}-${message.roomId}-${Date.now()}`
getProcessingKey(userId, roomId) == <<userId, roomId, evalNow>>

\* isProcessing: processingTokens.get(key) || false
isProcessing(pkey) == pkey \in processingTokens

\* calculateBuyAmounts: 1%, 5% and 10% of the liquidity in USD, converted to
\* SOL; zeros without liquidity.  The values used divide without remainder.
calculateBuyAmounts(liquidityUsd, solPrice) ==
    IF liquidityUsd <= 0
    THEN [none |-> 0, low |-> 0, medium |-> 0, high |-> 0]
    ELSE [none |-> 0,
          low |-> (liquidityUsd * 1) \div (100 * solPrice),
          medium |-> (liquidityUsd * 5) \div (100 * solPrice),
          high |-> (liquidityUsd * 10) \div (100 * solPrice)]

\* let buyAmount = buyAmounts[conviction]; if (!buyAmount) buyAmount = 10
BuyAmountOf(buyAmounts, conviction) ==
    IF buyAmounts[conviction] = 0 THEN 10 ELSE buyAmounts[conviction]

\* the filter of the extracted recommendations
Filtered(r) == ~r.alreadyKnown /\ (r.ticker # NULL \/ r.contractAddress # NULL)

\* resolvedAddress: the contract address given, else the one the ticker
\* resolves to, if any
ResolvedAddress(r) ==
    IF r.contractAddress # NULL THEN r.contractAddress
    ELSE IF r.ticker = Str("KNOWN") THEN GoodAddress ELSE NULL

\* the handler up to markAsProcessing: an invocation whose key is in the map
\* returns [] at once
HandlerStart(inv) ==
    /\ invocation[inv].pc = "idle"
    /\ LET pkey == getProcessingKey("user1", "room1") IN
         IF isProcessing(pkey)
         THEN /\ invocation' = [invocation EXCEPT ![inv] = [pc |-> "skipped", key |-> pkey]]
              /\ UNCHANGED processingTokens
         ELSE /\ invocation' = [invocation EXCEPT ![inv] = [pc |-> "processing", key |-> pkey]]
              /\ processingTokens' = processingTokens \cup {pkey}
    /\ lastEval' = NoEval
    /\ UNCHANGED <<evalNow, evalSteps, tradeVars>>

\* one turn of the loop over the filtered recommendations: the address is
\* resolved, the buy amount is looked up, and a buy recommendation on a token
\* provider with an address calls createTradePerformance for a simulation;
\* an error thrown by it is caught and logged.  participants.find is given
\* an async callback, whose promise is truthy, so a user is always found.
HandlerProcess(inv, r, liquidityUsd, throws) ==
    /\ invocation[inv].pc = "processing"
    /\ evalSteps < MaxEvalSteps
    /\ evalSteps' = evalSteps + 1
    /\ LET resolved == ResolvedAddress(r)
           buyAmounts == calculateBuyAmounts(liquidityUsd, SolPrice)
           buyAmount == BuyAmountOf(buyAmounts, r.conviction)
           reached == Filtered(r) /\ resolved # NULL
           shouldTrade == ConstructedAddress(resolved) # NULL
           trading == reached /\ shouldTrade /\ r.type = "buy"
       IN  /\ lastEval' = [inv |-> inv, rec |-> r, resolved |-> resolved,
                           calculated |-> buyAmounts[r.conviction],
                           called |-> trading,
                           amount |-> IF trading THEN buyAmount ELSE 0]
           /\ IF trading
              THEN createTradePerformance("r1", TRUE, 2, buyAmount, throws, 0)
              ELSE UNCHANGED tradeVars
    /\ UNCHANGED <<evalNow, processingTokens, invocation>>

\* the handler returns: finally { markAsComplete(processingKey) }
HandlerReturn(inv) ==
    /\ invocation[inv].pc \in {"processing", "skipped"}
    /\ processingTokens' =
          IF invocation[inv].pc = "processing"
          THEN processingTokens \ {invocation[inv].key}
          ELSE processingTokens
    /\ invocation' = [invocation EXCEPT ![inv] = NoInvocation]
    /\ lastEval' = NoEval
    /\ UNCHANGED <<evalNow, evalSteps, tradeVars>>

\* a millisecond passes
EvalTick ==
    /\ evalNow < MaxEvalTicks
    /\ evalNow' = evalNow + 1
    /\ lastEval' = NoEval
    /\ UNCHANGED <<processingTokens, invocation, evalSteps, tradeVars>>

EvalInit ==
    /\ evalNow = 0
    /\ processingTokens = {}
    /\ invocation = [inv \in Invocations |-> NoInvocation]
    /\ lastEval = NoEval
    /\ evalSteps = 0

EvalNext ==
    \/ \E inv \in Invocations : HandlerStart(inv)
    \/ \E inv \in Invocations, r \in Recommendations, liquidityUsd \in LiquidityValues,
          throws \in BOOLEAN :
          HandlerProcess(inv, r, liquidityUsd, throws)
    \/ \E inv \in Invocations : HandlerReturn(inv)
    \/ EvalTick

(***************************************************************************)
(* BalanceChecker of the Discord client (balanceChecker.ts:18-93): start()   *)
(* runs checkBalanceLoop once, and every execution of the loop that gets to *)
(* its setTimeout schedules the next one.  Time is in milliseconds.         *)
(***************************************************************************)

\* number of clock steps followed
MaxBalanceTicks == 6

VARIABLES
    bcNow,             \* Date.now()
    bcStarted,         \* start() has been called
    bcTimers,          \* times at which the pending setTimeout callbacks are due
    lastBalanceCheck,  \* the entry "discord/<channelId>/lastBalanceCheck" of the cache store
    lastLoop           \* the execution of checkBalanceLoop made in the latest step, if any

bcVars == <<bcNow, bcStarted, bcTimers, lastBalanceCheck, lastLoop>>

\* const delay = intervalMinutes * 60 * 1000, with intervalMinutes = 5
BalanceCheckDelay == 5 * 60 * 1000

\* the clock advances in steps of half the delay
BalanceTickMs == BalanceCheckDelay \div 2

NoLoop == [ran |-> FALSE, at |-> 0, since |-> 0, posted |-> FALSE,
           rejected |-> FALSE, scheduled |-> 0]

\* one execution of checkBalanceLoop.  getFails and setFails tell whether
\* cacheManager.get and cacheManager.set throw, postFails whether
\* checkAndPostBalance fails inside its try block, which logs the error.  An
\* error of get or set rejects the promise of the loop before setTimeout.
checkBalanceLoop(getFails, setFails, postFails) ==
    LET lastCheckTimestamp == IF lastBalanceCheck = NULL THEN 0
                              ELSE lastBalanceCheck.timestamp
        due == bcNow > lastCheckTimestamp + BalanceCheckDelay
        rejected == getFails \/ (due /\ setFails)
    IN  /\ lastBalanceCheck' = IF ~getFails /\ due /\ ~setFails
                               THEN [timestamp |-> bcNow]
                               ELSE lastBalanceCheck
        /\ lastLoop' = [ran |-> TRUE, at |-> bcNow, since |-> lastCheckTimestamp,
                        posted |-> ~getFails /\ due /\ ~postFails,
                        rejected |-> rejected,
                        scheduled |-> IF rejected THEN 0 ELSE 1]
        /\ bcTimers' = (bcTimers \ {t \in bcTimers : t <= bcNow})
                          \cup (IF rejected THEN {} ELSE {bcNow + BalanceCheckDelay})

\* start(): "Start the loop immediately"
BalanceCheckerStart(getFails, setFails, postFails) ==
    /\ ~bcStarted
    /\ bcStarted' = TRUE
    /\ checkBalanceLoop(getFails, setFails, postFails)
    /\ UNCHANGED bcNow

\* the callback of a setTimeout that is due runs the loop again
BalanceTimerFires(getFails, setFails, postFails) ==
    /\ \E t \in bcTimers : t <= bcNow
    /\ checkBalanceLoop(getFails, setFails, postFails)
    /\ UNCHANGED <<bcNow, bcStarted>>

\* the clock advances, not past a timer that is due
BalanceTick ==
    /\ bcNow < (2 + MaxBalanceTicks) * BalanceCheckDelay
    /\ \A t \in bcTimers : t > bcNow
    /\ bcNow' = bcNow + BalanceTickMs
    /\ lastLoop' = NoLoop
    /\ UNCHANGED <<bcStarted, bcTimers, lastBalanceCheck>>

BalanceInit ==
    /\ bcNow = 2 * BalanceCheckDelay
    /\ bcStarted = FALSE
    /\ bcTimers = {}
    /\ lastBalanceCheck = NULL
    /\ lastLoop = NoLoop

BalanceNext ==
    \/ \E getFails \in BOOLEAN, setFails \in BOOLEAN, postFails \in BOOLEAN :
          BalanceCheckerStart(getFails, setFails, postFails)
    \/ \E getFails \in BOOLEAN, setFails \in BOOLEAN, postFails \in BOOLEAN :
          BalanceTimerFires(getFails, setFails, postFails)
    \/ BalanceTick

vars == <<fetchVars, cacheVars, aggVars, tradeVars, metricsVars, scored, evalVars,
          bcVars>>

Init ==
    /\ FetchInit /\ CacheInit /\ AggInit /\ TradeInit /\ MetricsInit /\ ScoreInit
    /\ EvalInit
    /\ BalanceInit

\* C10 (as stated): a position only moves from open to closed: no step
\* changes a record whose sell fields are populated, so a second
\* updateSellDetails for the same recommender leaves the closed record as it
\* is, and a createTradePerformance that returns adds one new open record and
\* changes no other.
C10_ClosedTradeImmutable ==
    [][/\ \A k \in 1..Len(trades) :
             Closed(trades[k]) => (Len(trades') >= k /\ trades'[k] = trades[k])
       /\ (lastTradeOp'.op = "create" /\ ~lastTradeOp'.threw) =>
             /\ Len(trades') = Len(trades) + 1
             /\ ~Closed(trades'[Len(trades')])
             /\ \A k \in 1..Len(trades) : trades'[k] = trades[k]]_vars

\* C28: the backend replication of createTradePerformance sends at most 3
\* requests, waits 2000 ms after every rejected request but the last, and
\* never throws; when every request is rejected, createTradePerformance
\* still returns, the trade record it stored is in the table with every
\* earlier record unchanged and, for a simulation, so are the balance credit
\* and the buy transaction.
C28_BackendFailureKeepsLocalTrade ==
    [][(lastTradeOp'.op = "create" /\ lastTradeOp'.backend.attempts > 0) =>
          LET be == lastTradeOp'.backend
              stored == trades'[Len(trades')]
          IN  /\ be.attempts <= 3
              /\ be.delays = [k \in 1..(be.attempts - 1) |-> 2000]
              /\ ~be.threw
              /\ ~be.replicated =>
                    /\ be.attempts = 3
                    /\ ~lastTradeOp'.threw
                    /\ Len(trades') = Len(trades) + 1
                    /\ \A k \in 1..Len(trades) : trades'[k] = trades[k]
                    /\ stored.recommender_id = lastTradeOp'.recommender
                    /\ stored.sim = lastTradeOp'.sim
                    /\ stored.buy_timeStamp = clock'
                    /\ lastTradeOp'.sim =>
                          /\ balance' = IF stored.buy_price # 0
                                        THEN stored.buy_amount ELSE 0
                          /\ Len(txLog') = Len(txLog) + 1
                          /\ txLog'[Len(txLog')].type = "buy"
                          /\ txLog'[Len(txLog')].timestamp = clock'
      ]_vars

\* a simulated buy whose three replication requests were all rejected, two
\* delays apart, has returned with its record, credit and transaction stored
C28_Witness ==
    /\ lastTradeOp.op = "create"
    /\ lastTradeOp.sim
    /\ ~lastTradeOp.threw
    /\ lastTradeOp.backend.attempts = 3
    /\ lastTradeOp.backend.delays = <<2000, 2000>>
    /\ ~lastTradeOp.backend.replicated
    /\ trades # <<>>
    /\ trades[Len(trades)].buy_timeStamp = clock
    /\ balance = 100
    /\ txLog # <<>>
    /\ txLog[Len(txLog)].timestamp = clock

\* C32 (as stated): the getCachedData(key) that follows a durable hit on the
\* same instance is served by the in-process tier, without a durable read,
\* whenever it is issued.
C32_NextReadServedInProcess ==
    [][\A p \in Providers :
          (repopulated[p] # NoDurableHit /\ repopulated'[p] = NoDurableHit)
              => pendingGet'[p] = NoPending]_vars

\* C32 (amended): getCachedData reads the durable tier only on an in-process
\* miss, a hit in the in-process tier leaves the durable tier unread, a
\* durable hit stores the value it returns in the in-process tier, and the
\* next getCachedData(key) on the same instance is served without a durable
\* read if it is issued within the in-process TTL of that durable hit.
C32_TiersConsultedInOrder ==
    [][\A p \in Providers :
          /\ (pendingGet[p] = NoPending /\ pendingGet'[p] # NoPending)
                => ~Truthy(MemGet(p, pendingGet'[p].key))
          /\ (lastRead'.hit /\ ~lastRead'.reached)
                => pendingGet' = pendingGet /\ durable' = durable
          /\ (pendingGet[p] # NoPending /\ pendingGet'[p] = NoPending /\ lastRead'.hit)
                => /\ lastRead'.reached
                   /\ memory'[p][pendingGet[p].key].v = lastRead'.v
                   /\ ~(memory'[p][pendingGet[p].key].t < now')
                   /\ repopulated'[p] = [key |-> pendingGet[p].key, at |-> now]
          /\ (/\ repopulated[p] # NoDurableHit
              /\ repopulated'[p] = NoDurableHit
              /\ now <= repopulated[p].at + stdTTL * 1000)
                => /\ pendingGet'[p] = NoPending
                   /\ lastRead'.hit
                   /\ ~lastRead'.reached]_vars

\* a durable hit has just stored the value it returned in the in-process tier
\* of a provider that never wrote the key
C32_Witness ==
    \E p \in Providers :
        /\ repopulated[p] = [key |-> "tokenSecurity", at |-> now]
        /\ lastRead.hit
        /\ lastRead.reached
        /\ memory[p]["tokenSecurity"].v = lastRead.v
        /\ roundTrip["tokenSecurity"].p # p

SpecFetch == Init /\ [][FetchNext /\ UNCHANGED <<cacheVars, aggVars, tradeVars, metricsVars, scored, evalVars, bcVars>>]_vars

SpecCache == Init /\ [][CacheNext /\ UNCHANGED <<fetchVars, aggVars, tradeVars, metricsVars, scored, evalVars, bcVars>>]_vars

SpecAgg == Init /\ [][AggNext /\ UNCHANGED <<fetchVars, cacheRest, tradeVars, metricsVars, scored, evalVars, bcVars>>]_vars

\* C36 (as stated): a createTradePerformance that returns for a simulated
\* trade adds the tokens bought to the virtual balance and appends one 'buy'
\* entry to the transaction log, an updateSellDetails that returns for a
\* simulated trade lowers the virtual balance by sell_amount and appends one
\* 'sell' entry, and for a non-simulated trade both leave the virtual
\* balance and the transaction log as they were.
C36_SimulatedTradeMovesBalance ==
    [][(clock' = clock + 1 /\ ~lastTradeOp'.threw) =>
          IF lastTradeOp'.sim
          THEN /\ Len(txLog') = Len(txLog) + 1
               /\ SubSeq(txLog', 1, Len(txLog)) = txLog
               /\ LET entry == txLog'[Len(txLog')] IN
                    IF lastTradeOp'.op = "create"
                    THEN /\ entry.type = "buy"
                         /\ balance' = balance + TokensBalance(entry.price, entry.amount)
                    ELSE /\ entry.type = "sell"
                         /\ balance' = balance - entry.amount
          ELSE balance' = balance /\ txLog' = txLog]_vars

\* C35 (as stated): a fetchHolderList that follows, within the TTL of 10
\* minutes, a fetchHolderList whose response held zero holders returns the
\* empty list without issuing a request, and one that follows a failed fetch
\* issues the request again.
C35_EmptyHolderListCached ==
    [][(/\ adapterCall.adapter = "fetchHolderList"
        /\ adapterCall.asked
        /\ adapterCalls' = adapterCalls + 1
        /\ adapterCall'.adapter = "fetchHolderList"
        /\ now < adapterCall.at + DurableTtlMs)
          => /\ adapterCall.outcome = "empty"
                  => ~adapterCall'.asked /\ adapterCall'.ret = List(<<>>)
             /\ adapterCall.outcome = "fail" => adapterCall'.asked]_vars

SpecRepeat == Init /\ [][RepeatNext /\ UNCHANGED <<fetchVars, tradeVars, metricsVars, scored, evalVars, bcVars>>]_vars

SpecTrade == Init /\ [][TradeNext /\ UNCHANGED <<fetchVars, cacheVars, aggVars, metricsVars, scored, evalVars, bcVars>>]_vars

\* C37 (as stated): the handler opens exactly one position for every
\* recommendation of type buy that is not already known and whose contract
\* address is given or resolved from its ticker, and no other recommendation
\* creates or changes a trade record.
C37_PositionPerBuyRecommendation ==
    [][(evalSteps' = evalSteps + 1) =>
          IF /\ lastEval'.rec.type = "buy"
             /\ ~lastEval'.rec.alreadyKnown
             /\ lastEval'.resolved # NULL
          THEN /\ Len(trades') = Len(trades) + 1
               /\ \A k \in 1..Len(trades) : trades'[k] = trades[k]
          ELSE trades' = trades]_vars

\* C38 (as stated): the buy amount the handler passes to
\* createTradePerformance is the amount calculateBuyAmounts computed for the
\* conviction of the recommendation.
C38_BuyAmountIsCalculatedAmount ==
    lastEval.called => lastEval.amount = lastEval.calculated

\* C39 (as stated): at most one invocation of the handler for the user and
\* room is past the processing check at any time.
C39_OneInvocationProcessing ==
    Cardinality({inv \in Invocations : invocation[inv].pc = "processing"}) <= 1

SpecEval == Init /\ [][EvalNext /\ UNCHANGED <<fetchVars, cacheVars, aggVars, metricsVars, scored, bcVars>>]_vars

\* C40 (as stated): once start() has been called, every execution of the
\* check loop leaves exactly one timer pending, due 5 minutes later, whether
\* or not it posted a balance and whatever failed, and a balance is posted
\* only when more than 5 minutes have passed since the stored timestamp.
C40_LoopKeepsOneTimer ==
    /\ bcStarted => Cardinality(bcTimers) = 1
    /\ lastLoop.ran => bcTimers = {lastLoop.at + BalanceCheckDelay}
    /\ lastLoop.posted => lastLoop.at > lastLoop.since + BalanceCheckDelay

SpecBalance == Init /\ [][BalanceNext /\ UNCHANGED <<fetchVars, cacheVars, aggVars, tradeVars,
                                                    metricsVars, scored, evalVars>>]_vars

SpecMetrics == Init /\ [][MetricsNext /\ UNCHANGED <<fetchVars, cacheVars, aggVars, tradeVars, scored, evalVars, bcVars>>]_vars

SpecScore == Init /\ [][ScoreNext /\ UNCHANGED <<fetchVars, cacheVars, aggVars, tradeVars, metricsVars, evalVars, bcVars>>]_vars

====
